---- MODULE Spec2Model ----
(***************************************************************************)
(* A model of the nanomsg wrapper: the zero-copy MessageBuffer (alloc.rs), *)
(* the raw Socket send/recv (socket.rs) and the pattern algorithms built   *)
(* on them (protocol.rs: request, reply, reply_loop, survey, respond).     *)
(* The native library is the environment: every native call completes with *)
(* an outcome the transport chooses.                                       *)
(***************************************************************************)
EXTENDS Integers, Sequences, FiniteSets, TLC

\* ------------------------------------------------------------------ bounds
MaxAllocs == 3      \* chunks the native allocator hands out in one behaviour
MaxLen == 1         \* longest message, in bytes
MaxBufs == 2        \* MessageBuffer bindings of the user program (SpecAlloc)
MaxUserAllocs == 2  \* chunks the user program allocates (SpecAlloc)
MaxQueue == 2       \* capacity of a socket's send and receive queues

Byte == {0, 1}      \* u8, cut down to two values
AllocIds == 1..MaxAllocs
Slots == 1..MaxBufs
Sockets == {"Req", "Rep", "Surveyor", "Respondent"}
Threads == {"t1", "t2", "t3"}

BytesOfLen(n) == [1..n -> Byte]
ByteSeqs == UNION {BytesOfLen(n) : n \in 0..MaxLen}
Zeros(n) == [i \in 1..n |-> 0]

\* ---------------------------------------------------------------- errors
\* error.rs: Error(c_int) holds the errno of the failed native call.
ETIMEDOUT == "ETIMEDOUT"
EAGAIN == "EAGAIN"
EBADF == "EBADF"
Error(c) == [code |-> c]
NoErr == Error("none")
TIMED_OUT == Error(ETIMEDOUT)
WOULD_BLOCK == Error(EAGAIN)
\* E: From<Error>, the error type of reply, reply_loop and respond: an Error
\* converted with From, or the handler's own error.
E_from(e) == [tag |-> "From", error |-> e]
HandlerErr == [tag |-> "Handler", error |-> NoErr]

\* socket.rs Flags: the empty set, or {DONTWAIT}.
DONTWAIT == "DONTWAIT"
FlagsEmpty == {}
FlagSets == {FlagsEmpty, {DONTWAIT}}

Ok(v) == [ok |-> TRUE, val |-> v, err |-> NoErr]
Err(e) == [ok |-> FALSE, val |-> << >>, err |-> e]

VARIABLES
    heap,       \* native allocator: chunk id -> [st, bytes, frees, bad]
    slots,      \* SpecAlloc: the user's MessageBuffer bindings
    raws,       \* raw pointers the user holds (results of into_raw)
    inq,        \* per socket: chunks the transport holds for nn_recv
    link,       \* per socket: the peer socket it is connected to, or "env"
    pc,         \* per thread: position in the running pattern call
    op,         \* per thread: the pattern call that is running
    cur,        \* per thread: the MessageBuffer the call holds
    responses,  \* per thread: survey's Vec<MessageBuffer>
    ret,        \* per thread: what the last call returned
    log,        \* per thread: native calls and handler calls of the call
    fds,        \* native socket table: descriptor -> [open, gen]
    socks,      \* the Socket wrappers the program holds: binding -> descriptor
    rawfds,     \* descriptors released with into_raw_fd
    eps,        \* native endpoints that are active: a set of [fd, id]
    handles,    \* the Endpoint values the program holds, a set
    opts,       \* per option: the bytes the transport stores for the socket
    topics,     \* the topics the transport holds subscriptions for
    msg,        \* the nng_msg of the Message the program holds
    sys,        \* the native calls the last wrapper operation made
    last        \* the last wrapper operation and its result

vars == <<heap, slots, raws, inq, link, pc, op, cur, responses, ret, log,
          fds, socks, rawfds, eps, handles, opts, topics, msg, sys, last>>
sockvars == <<fds, socks, rawfds, eps, handles, opts, topics, msg, sys, last>>
memvars == <<heap, slots, raws, inq, link>>
threadvars == <<pc, op, cur, responses, ret, log>>

NoRet == [kind |-> "none", err |-> NoErr, bufs |-> << >>]

\* ------------------------------------------------------ native allocator
\* A MessageBuffer is {ptr, size} (alloc.rs:18-21); ptr 0 is the null pointer.
NoBuf == [ptr |-> 0, size |-> 0]
Unalloc == [st |-> "unalloc", bytes |-> << >>, frees |-> 0, bad |-> FALSE]

HasFresh(h) == \E a \in AllocIds : h[a].st = "unalloc"
FreshPtr(h) == CHOOSE a \in AllocIds :
                  /\ h[a].st = "unalloc"
                  /\ \A b \in AllocIds : h[b].st = "unalloc" => a <= b

\* nn_allocmsg(size, 0): a fresh chunk; its content is whatever was there.
nn_allocmsg(h, content) ==
    [h EXCEPT ![FreshPtr(h)] =
        [st |-> "live", bytes |-> content, frees |-> 0, bad |-> FALSE]]

\* nn_freemsg(ptr): the chunk is returned and its content is gone; freeing a
\* chunk that is not live is a double free and is only counted.
nn_freemsg(h, p) ==
    [h EXCEPT ![p].st = "freed",
              ![p].bytes = << >>,
              ![p].frees = IF @ < 2 THEN @ + 1 ELSE @,
              ![p].bad = @ \/ h[p].st # "live"]

\* A read or write through a pointer; touching a chunk that is not live is
\* a use after free.
Touch(h, p) == [h EXCEPT ![p].bad = @ \/ h[p].st # "live"]

\* ------------------------------------------------------------- alloc.rs
\* MessageBuffer::into_raw: the pointer is handed out and mem::forget keeps
\* Drop from running, so the heap is left as it is.
into_raw_Dropping(h, buffer) == [heap |-> nn_freemsg(h, buffer.ptr), ptr |-> buffer.ptr]

into_raw(h, buffer) == [heap |-> h, ptr |-> buffer.ptr]

\* MessageBuffer::from_raw: wraps the pointer with the size given.
from_raw_ShortByOne(p, size) == [ptr |-> p, size |-> IF size > 0 THEN size - 1 ELSE 0]

from_raw(p, size) == [ptr |-> p, size |-> size]

\* Drop for MessageBuffer: nn_freemsg(self.ptr).
MessageBuffer_drop(h, buffer) == nn_freemsg(h, buffer.ptr)

\* Deref: slice::from_raw_parts(ptr, size).
Deref(h, buffer) ==
    [i \in 1..buffer.size |->
        IF i <= Len(h[buffer.ptr].bytes) THEN h[buffer.ptr].bytes[i] ELSE 0]

\* Dropping a Vec<MessageBuffer> drops every element.
RECURSIVE DropAll(_, _)
DropAll(h, bufs) ==
    IF bufs = << >> THEN h
    ELSE DropAll(MessageBuffer_drop(h, Head(bufs)), Tail(bufs))

\* ------------------------------------------------------------ transport
\* The native library is outside the repository: a native call completes
\* with one of the outcomes below, and the transport picks which. A socket
\* is linked to a peer socket of the model, or its peers are played by the
\* environment ("env").
Errnos(flags) == IF DONTWAIT \in flags THEN {EAGAIN, EBADF} ELSE {ETIMEDOUT, EBADF}

\* last_error(): Error::from_raw_nanomsg_error(nn_errno()).
last_error(nat) == Error(nat.errno)

\* error_guard!: a native return of -1 is the failure.
error_guard_NonPositive(r) == r <= 0

error_guard(r) == r = -1

\* nn_send(fd, &buf_ptr, NN_MSG, flags): on success the transport takes the
\* chunk and returns its length; on failure it returns -1 and leaves the
\* chunk alone.
NnSendOutcomes(h, iq, s, p, flags) ==
    {[ret |-> Len(h[p].bytes), errno |-> "none"] :
        x \in {l \in {link[s]} : l = "env" \/ Len(iq[l]) < MaxQueue}}
    \cup {[ret |-> -1, errno |-> e] : e \in Errnos(flags)}

\* The chunk taken goes to the linked peer's receive queue as it is (zero
\* copy); sent to the environment's peers, it is freed by the transport.
nn_send(h, iq, s, p, nat) ==
    IF nat.ret = -1 THEN [heap |-> h, inq |-> iq]
    ELSE IF link[s] = "env" THEN [heap |-> nn_freemsg(h, p), inq |-> iq]
    ELSE [heap |-> Touch(h, p), inq |-> [iq EXCEPT ![link[s]] = Append(@, p)]]

\* nn_recv(fd, &mut buffer, NN_MSG, flags): on success a chunk is handed
\* over, with its length: the head of the receive queue, or a message of the
\* environment's peers in a chunk the transport allocates; on failure -1.
NnRecvOutcomes(h, iq, s, flags) ==
    (IF link[s] = "env"
     THEN {[ret |-> Len(c), errno |-> "none", buffer |-> FreshPtr(h), content |-> c] :
              c \in {d \in ByteSeqs : HasFresh(h)}}
     ELSE {[ret |-> Len(h[p].bytes), errno |-> "none", buffer |-> p, content |-> h[p].bytes] :
              p \in {q \in AllocIds : iq[s] # << >> /\ q = Head(iq[s])}})
    \cup {[ret |-> -1, errno |-> e, buffer |-> 0, content |-> << >>] : e \in Errnos(flags)}

nn_recv(h, iq, s, nat) ==
    IF nat.ret = -1 THEN [heap |-> h, inq |-> iq]
    ELSE IF link[s] = "env" THEN [heap |-> nn_allocmsg(h, nat.content), inq |-> iq]
    ELSE [heap |-> h, inq |-> [iq EXCEPT ![s] = Tail(@)]]

\* ------------------------------------------------------------ socket.rs
\* Socket::send: buffer.into_raw(), nn_send, error_guard!, Ok(size).
Socket_send(h, iq, s, buffer, flags, nat) ==
    LET r == into_raw(h, buffer)
        t == nn_send(r.heap, iq, s, r.ptr, nat)
    IN  [heap |-> t.heap, inq |-> t.inq,
         res |-> IF error_guard(nat.ret) THEN Err(last_error(nat)) ELSE Ok(nat.ret)]

\* Socket::recv: nn_recv, error_guard!, Ok(MessageBuffer::from_raw(buffer, size)).
Socket_recv(h, iq, s, flags, nat) ==
    LET t == nn_recv(h, iq, s, nat)
    IN  [heap |-> t.heap, inq |-> t.inq,
         res |-> IF error_guard(nat.ret) THEN Err(last_error(nat))
                 ELSE Ok(from_raw(nat.buffer, nat.ret))]

\* ------------------------------------------- the MessageBuffer user program
\* The user program has allocations left.
UserHasFresh(h) ==
    /\ HasFresh(h)
    /\ Cardinality({a \in AllocIds : h[a].st # "unalloc"}) < MaxUserAllocs

\* MessageBuffer::new(size): the content is uninitialized.
New(i, size) ==
    /\ slots[i] = NoBuf
    /\ UserHasFresh(heap)
    /\ \E content \in BytesOfLen(size) : heap' = nn_allocmsg(heap, content)
    /\ slots' = [slots EXCEPT ![i] = [ptr |-> FreshPtr(heap), size |-> size]]
    /\ UNCHANGED <<raws, inq, link, threadvars, sockvars>>

\* MessageBuffer::zeroed(size): memset(p, 0, size).
Zeroed(i, size) ==
    /\ slots[i] = NoBuf
    /\ UserHasFresh(heap)
    /\ heap' = nn_allocmsg(heap, Zeros(size))
    /\ slots' = [slots EXCEPT ![i] = [ptr |-> FreshPtr(heap), size |-> size]]
    /\ UNCHANGED <<raws, inq, link, threadvars, sockvars>>

\* The content after nn_reallocmsg: the shared prefix, then uninitialized bytes.
Resized(old, new_size) ==
    {c \in BytesOfLen(new_size) :
        \A k \in 1..new_size : k <= Len(old) => c[k] = old[k]}

\* MessageBuffer::resize(new_size): nn_reallocmsg grows or shrinks the chunk
\* in place, or moves it to a fresh chunk and frees the old one.
Resize(i, new_size) ==
    /\ slots[i] # NoBuf
    /\ \E content \in Resized(heap[slots[i].ptr].bytes, new_size) :
        \/ /\ heap' = [Touch(heap, slots[i].ptr) EXCEPT ![slots[i].ptr].bytes = content]
           /\ slots' = [slots EXCEPT ![i].size = new_size]
        \/ /\ UserHasFresh(heap)
           /\ heap' = nn_freemsg(nn_allocmsg(heap, content), slots[i].ptr)
           /\ slots' = [slots EXCEPT ![i] = [ptr |-> FreshPtr(heap), size |-> new_size]]
    /\ UNCHANGED <<raws, inq, link, threadvars, sockvars>>

\* DerefMut / IndexMut: a byte of the buffer is overwritten.
Write(i, k, b) ==
    /\ slots[i] # NoBuf
    /\ k \in 1..slots[i].size
    /\ heap' = [Touch(heap, slots[i].ptr) EXCEPT
                   ![slots[i].ptr].bytes = [j \in 1..Len(@) |-> IF j = k THEN b ELSE @[j]]]
    /\ UNCHANGED <<slots, raws, inq, link, threadvars, sockvars>>

\* MessageBuffer::into_raw(self): the binding is consumed, the caller holds
\* the pointer.
IntoRaw(i) ==
    /\ slots[i] # NoBuf
    /\ LET r == into_raw(heap, slots[i])
       IN  /\ heap' = r.heap
           /\ raws' = raws \cup {r.ptr}
    /\ slots' = [slots EXCEPT ![i] = NoBuf]
    /\ UNCHANGED <<inq, link, threadvars, sockvars>>

\* MessageBuffer::from_raw(ptr, size), with a pointer the caller owns and the
\* size it was allocated with (the contract of the unsafe fn).
FromRaw(i, p) ==
    /\ slots[i] = NoBuf
    /\ p \in raws
    /\ slots' = [slots EXCEPT ![i] = from_raw(p, Len(heap[p].bytes))]
    /\ raws' = raws \ {p}
    /\ UNCHANGED <<heap, inq, link, threadvars, sockvars>>

\* Socket::send(buffer, flags) on socket s: the binding is moved into the call.
Send(i, s, flags) ==
    /\ slots[i] # NoBuf
    /\ \E nat \in NnSendOutcomes(heap, inq, s, slots[i].ptr, flags) :
        LET r == Socket_send(heap, inq, s, slots[i], flags, nat)
        IN  /\ heap' = r.heap
            /\ inq' = r.inq
    /\ slots' = [slots EXCEPT ![i] = NoBuf]
    /\ UNCHANGED <<raws, link, threadvars, sockvars>>

\* The binding goes out of scope: Drop for MessageBuffer.
Drop(i) ==
    /\ slots[i] # NoBuf
    /\ heap' = MessageBuffer_drop(heap, slots[i])
    /\ slots' = [slots EXCEPT ![i] = NoBuf]
    /\ UNCHANGED <<raws, inq, link, threadvars, sockvars>>

\* ---------------------------------------------------------- protocol.rs
\* One entry of a call's log: the call itself (arg: the bytes of the buffer
\* passed), a native send or receive as the transport completed it, or a
\* handler call (arg: what it was given, data: what it produced).
Event(ev, ok, arg, data, errno) ==
    [ev |-> ev, ok |-> ok, arg |-> arg, data |-> data, errno |-> errno]
CallEvent(content) == Event("call", TRUE, content, << >>, "none")
SendEvent(h, p, nat) == Event("send", nat.ret # -1, << >>, h[p].bytes, nat.errno)
RecvEvent(nat) == Event("recv", nat.ret # -1, << >>, nat.content, nat.errno)

\* SPSend::send and SPRecv::recv: the blocking variants, Flags::empty().
SPSend_send(h, iq, s, buffer, nat) == Socket_send(h, iq, s, buffer, FlagsEmpty, nat)
SPRecv_recv(h, iq, s, nat) == Socket_recv(h, iq, s, FlagsEmpty, nat)

\* The call returns to its caller.
Returns(t, kind, e, bufs) ==
    /\ pc' = [pc EXCEPT ![t] = "returned"]
    /\ ret' = [ret EXCEPT ![t] = [kind |-> kind, err |-> e, bufs |-> bufs]]

\* The caller starts request(body) or survey(message) with a MessageBuffer
\* made from a byte slice (From<&[u8]>: new(len), copy_from_slice).
Call(t, o, content) ==
    /\ pc[t] = "idle"
    /\ o \in {"request", "survey"}
    /\ HasFresh(heap)
    /\ heap' = nn_allocmsg(heap, content)
    /\ cur' = [cur EXCEPT ![t] = [ptr |-> FreshPtr(heap), size |-> Len(content)]]
    /\ op' = [op EXCEPT ![t] = o]
    /\ pc' = [pc EXCEPT ![t] = "send"]
    /\ log' = [log EXCEPT ![t] = <<CallEvent(content)>>]
    /\ UNCHANGED <<slots, raws, inq, link, responses, ret, sockvars>>

\* The caller starts reply(handler), reply_loop(handler) or respond(handler).
CallServe(t, o) ==
    /\ pc[t] = "idle"
    /\ o \in {"reply", "reply_loop", "respond"}
    /\ op' = [op EXCEPT ![t] = o]
    /\ pc' = [pc EXCEPT ![t] = "recv"]
    /\ log' = [log EXCEPT ![t] = <<CallEvent(<< >>)>>]
    /\ UNCHANGED <<memvars, cur, responses, ret, sockvars>>

\* The caller is done with what the call returned: the result is dropped.
Consume(t) ==
    /\ pc[t] = "returned"
    /\ heap' = DropAll(heap, ret[t].bufs)
    /\ pc' = [pc EXCEPT ![t] = "idle"]
    /\ op' = [op EXCEPT ![t] = "none"]
    /\ ret' = [ret EXCEPT ![t] = NoRet]
    /\ log' = [log EXCEPT ![t] = << >>]
    /\ UNCHANGED <<slots, raws, inq, link, cur, responses, sockvars>>

\* Req::request, the ? on the send: a failed send returns its error.
Req_request_after_send_IgnoresErr(t, res) ==
    pc' = [pc EXCEPT ![t] = "recv"] /\ UNCHANGED ret

Req_request_after_send(t, res) ==
    IF res.ok
    THEN pc' = [pc EXCEPT ![t] = "recv"] /\ UNCHANGED ret
    ELSE Returns(t, "err", res.err, << >>)

\* Req::request with a lock held from the send to the return of the
\* receive: the send waits while another caller is between the two.
Req_request_send_Locked(t) ==
    /\ op[t] = "request" /\ pc[t] = "send"
    /\ \A u \in Threads \ {t} : ~(op[u] = "request" /\ pc[u] = "recv")
    /\ \E nat \in NnSendOutcomes(heap, inq, "Req", cur[t].ptr, FlagsEmpty) :
        LET r == SPSend_send(heap, inq, "Req", cur[t], nat)
        IN  /\ heap' = r.heap
            /\ inq' = r.inq
            /\ log' = [log EXCEPT ![t] = Append(@, SendEvent(heap, cur[t].ptr, nat))]
            /\ Req_request_after_send(t, r.res)
    /\ cur' = [cur EXCEPT ![t] = NoBuf]
    /\ UNCHANGED <<slots, raws, link, op, responses, sockvars>>

\* Req::request: self.send(body)?
Req_request_send(t) ==
    /\ op[t] = "request" /\ pc[t] = "send"
    /\ \E nat \in NnSendOutcomes(heap, inq, "Req", cur[t].ptr, FlagsEmpty) :
        LET r == SPSend_send(heap, inq, "Req", cur[t], nat)
        IN  /\ heap' = r.heap
            /\ inq' = r.inq
            /\ log' = [log EXCEPT ![t] = Append(@, SendEvent(heap, cur[t].ptr, nat))]
            /\ Req_request_after_send(t, r.res)
    /\ cur' = [cur EXCEPT ![t] = NoBuf]
    /\ UNCHANGED <<slots, raws, link, op, responses, sockvars>>

\* Req::request: self.recv()
Req_request_recv(t) ==
    /\ op[t] = "request" /\ pc[t] = "recv"
    /\ \E nat \in NnRecvOutcomes(heap, inq, "Req", FlagsEmpty) :
        LET r == SPRecv_recv(heap, inq, "Req", nat)
        IN  /\ heap' = r.heap
            /\ inq' = r.inq
            /\ log' = [log EXCEPT ![t] = Append(@, RecvEvent(nat))]
            /\ IF r.res.ok
               THEN Returns(t, "ok", NoErr, <<r.res.val>>)
               ELSE Returns(t, "err", r.res.err, << >>)
    /\ UNCHANGED <<slots, raws, link, op, cur, responses, sockvars>>

\* Surveyor::survey: self.send(message)?; let mut responses = Vec::new()
Surveyor_survey_send(t) ==
    /\ op[t] = "survey" /\ pc[t] = "send"
    /\ \E nat \in NnSendOutcomes(heap, inq, "Surveyor", cur[t].ptr, FlagsEmpty) :
        LET r == SPSend_send(heap, inq, "Surveyor", cur[t], nat)
        IN  /\ heap' = r.heap
            /\ inq' = r.inq
            /\ log' = [log EXCEPT ![t] = Append(@, SendEvent(heap, cur[t].ptr, nat))]
            /\ IF r.res.ok
               THEN pc' = [pc EXCEPT ![t] = "recv"] /\ UNCHANGED ret
               ELSE Returns(t, "err", r.res.err, << >>)
    /\ cur' = [cur EXCEPT ![t] = NoBuf]
    /\ responses' = [responses EXCEPT ![t] = << >>]
    /\ UNCHANGED <<slots, raws, link, op, sockvars>>

\* Surveyor::survey, the arms of match self.recv(): Ok(resp) => push,
\* Err(TIMED_OUT) => return Ok(responses), Err(e) => return Err(e).
survey_match_AnyErrEnds(res) == IF res.ok THEN "push" ELSE "return_ok"

survey_match_TimeoutIsErr(res) == IF res.ok THEN "push" ELSE "return_err"

survey_match(res) ==
    IF res.ok THEN "push"
    ELSE IF res.err = TIMED_OUT THEN "return_ok"
    ELSE "return_err"

\* responses.push(resp)
responses_push_Front(v, resp) == <<resp>> \o v

responses_push(v, resp) == Append(v, resp)

\* Surveyor::survey with a loop that goes on after a failed receive.
Surveyor_survey_recv_IgnoresFailure(t) ==
    /\ op[t] = "survey" /\ pc[t] = "recv"
    /\ \E nat \in NnRecvOutcomes(heap, inq, "Surveyor", FlagsEmpty) :
        LET r == SPRecv_recv(heap, inq, "Surveyor", nat)
        IN  IF r.res.ok
            THEN /\ inq' = r.inq
                 /\ log' = [log EXCEPT ![t] = Append(@, RecvEvent(nat))]
                 /\ responses' = [responses EXCEPT ![t] = responses_push(@, r.res.val)]
                 /\ heap' = r.heap
                 /\ UNCHANGED <<pc, ret>>
            ELSE UNCHANGED <<inq, log, responses, heap, pc, ret>>
    /\ UNCHANGED <<slots, raws, link, op, cur, sockvars>>

\* Surveyor::survey, one turn of the loop.
Surveyor_survey_recv(t) ==
    /\ op[t] = "survey" /\ pc[t] = "recv"
    /\ \E nat \in NnRecvOutcomes(heap, inq, "Surveyor", FlagsEmpty) :
        LET r == SPRecv_recv(heap, inq, "Surveyor", nat)
        IN  /\ inq' = r.inq
            /\ log' = [log EXCEPT ![t] = Append(@, RecvEvent(nat))]
            /\ IF survey_match(r.res) = "push"
               THEN /\ responses' = [responses EXCEPT ![t] = responses_push(@, r.res.val)]
                    /\ heap' = r.heap
                    /\ UNCHANGED <<pc, ret>>
               ELSE IF survey_match(r.res) = "return_ok"
               THEN /\ Returns(t, "ok", NoErr, responses[t])
                    /\ responses' = [responses EXCEPT ![t] = << >>]
                    /\ heap' = r.heap
               ELSE /\ Returns(t, "err", r.res.err, << >>)
                    /\ heap' = DropAll(r.heap, responses[t])
                    /\ responses' = [responses EXCEPT ![t] = << >>]
    /\ UNCHANGED <<slots, raws, link, op, cur, sockvars>>

\* What a handler may do with the request it is given: hand the same buffer
\* back, build a new buffer (the request is dropped), or fail (the request is
\* dropped).
HandlerOutcomes(h) ==
    {[kind |-> "same", content |-> << >>], [kind |-> "fail", content |-> << >>]}
    \cup {[kind |-> "new", content |-> c] : c \in {d \in ByteSeqs : HasFresh(h)}}

\* Rep::reply_loop: loop { if let Err(e) = self.reply(handler) { return e; } }
\* and a plain reply returning its result.
Rep_reply_loop_ReturnsOnOk(t, res) ==
    Returns(t, IF res.ok THEN "ok" ELSE "err", res.err, << >>)

Rep_reply_loop_RetriesTimeout(t, res) ==
    IF op[t] = "reply_loop" /\ (res.ok \/ res.err = E_from(TIMED_OUT))
    THEN pc' = [pc EXCEPT ![t] = "recv"] /\ UNCHANGED ret
    ELSE Returns(t, IF res.ok THEN "ok" ELSE "err", res.err, << >>)

Rep_reply_loop(t, res) ==
    IF op[t] = "reply_loop" /\ res.ok
    THEN pc' = [pc EXCEPT ![t] = "recv"] /\ UNCHANGED ret
    ELSE Returns(t, IF res.ok THEN "ok" ELSE "err", res.err, << >>)

\* Rep::reply: let request = self.recv()?
Rep_reply_recv(t) ==
    /\ op[t] \in {"reply", "reply_loop"} /\ pc[t] = "recv"
    /\ \E nat \in NnRecvOutcomes(heap, inq, "Rep", FlagsEmpty) :
        LET r == SPRecv_recv(heap, inq, "Rep", nat)
        IN  /\ heap' = r.heap
            /\ inq' = r.inq
            /\ log' = [log EXCEPT ![t] = Append(@, RecvEvent(nat))]
            /\ IF r.res.ok
               THEN /\ cur' = [cur EXCEPT ![t] = r.res.val]
                    /\ pc' = [pc EXCEPT ![t] = "handler"]
                    /\ UNCHANGED ret
               ELSE /\ Rep_reply_loop(t, Err(E_from(r.res.err)))
                    /\ UNCHANGED cur
    /\ UNCHANGED <<slots, raws, link, op, responses, sockvars>>

\* Rep::reply, the ? on the handler: its failure is the result of reply.
Rep_reply_handler_failed_Swallowed(t) == Rep_reply_loop(t, Ok(<< >>))

Rep_reply_handler_failed(t) == Rep_reply_loop(t, Err(HandlerErr))

\* Rep::reply: handler(request)?
Rep_reply_handler(t) ==
    /\ op[t] \in {"reply", "reply_loop"} /\ pc[t] = "handler"
    /\ \E out \in HandlerOutcomes(heap) :
        /\ log' = [log EXCEPT ![t] = Append(@,
              Event("handler", out.kind # "fail", Deref(heap, cur[t]),
                    IF out.kind = "same" THEN Deref(heap, cur[t]) ELSE out.content, "none"))]
        /\ CASE out.kind = "same" ->
                 /\ pc' = [pc EXCEPT ![t] = "send"]
                 /\ UNCHANGED <<heap, cur, ret>>
             [] out.kind = "new" ->
                 /\ heap' = MessageBuffer_drop(nn_allocmsg(heap, out.content), cur[t])
                 /\ cur' = [cur EXCEPT ![t] = [ptr |-> FreshPtr(heap), size |-> Len(out.content)]]
                 /\ pc' = [pc EXCEPT ![t] = "send"]
                 /\ UNCHANGED ret
             [] out.kind = "fail" ->
                 /\ heap' = MessageBuffer_drop(heap, cur[t])
                 /\ cur' = [cur EXCEPT ![t] = NoBuf]
                 /\ Rep_reply_handler_failed(t)
    /\ UNCHANGED <<slots, raws, inq, link, op, responses, sockvars>>

\* Rep::reply: self.send(..)?; Ok(())
Rep_reply_send(t) ==
    /\ op[t] \in {"reply", "reply_loop"} /\ pc[t] = "send"
    /\ \E nat \in NnSendOutcomes(heap, inq, "Rep", cur[t].ptr, FlagsEmpty) :
        LET r == SPSend_send(heap, inq, "Rep", cur[t], nat)
        IN  /\ heap' = r.heap
            /\ inq' = r.inq
            /\ log' = [log EXCEPT ![t] = Append(@, SendEvent(heap, cur[t].ptr, nat))]
            /\ Rep_reply_loop(t, IF r.res.ok THEN Ok(<< >>) ELSE Err(E_from(r.res.err)))
    /\ cur' = [cur EXCEPT ![t] = NoBuf]
    /\ UNCHANGED <<slots, raws, link, op, responses, sockvars>>

\* Respondent::respond: let request = self.recv()?
Respondent_respond_recv(t) ==
    /\ op[t] = "respond" /\ pc[t] = "recv"
    /\ \E nat \in NnRecvOutcomes(heap, inq, "Respondent", FlagsEmpty) :
        LET r == SPRecv_recv(heap, inq, "Respondent", nat)
        IN  /\ heap' = r.heap
            /\ inq' = r.inq
            /\ log' = [log EXCEPT ![t] = Append(@, RecvEvent(nat))]
            /\ IF r.res.ok
               THEN /\ cur' = [cur EXCEPT ![t] = r.res.val]
                    /\ pc' = [pc EXCEPT ![t] = "handler"]
                    /\ UNCHANGED ret
               ELSE /\ Returns(t, "err", E_from(r.res.err), << >>)
                    /\ UNCHANGED cur
    /\ UNCHANGED <<slots, raws, link, op, responses, sockvars>>

\* Respondent::respond: handler(request)?
Respondent_respond_handler(t) ==
    /\ op[t] = "respond" /\ pc[t] = "handler"
    /\ \E out \in HandlerOutcomes(heap) :
        /\ log' = [log EXCEPT ![t] = Append(@,
              Event("handler", out.kind # "fail", Deref(heap, cur[t]),
                    IF out.kind = "same" THEN Deref(heap, cur[t]) ELSE out.content, "none"))]
        /\ CASE out.kind = "same" ->
                 /\ pc' = [pc EXCEPT ![t] = "send"]
                 /\ UNCHANGED <<heap, cur, ret>>
             [] out.kind = "new" ->
                 /\ heap' = MessageBuffer_drop(nn_allocmsg(heap, out.content), cur[t])
                 /\ cur' = [cur EXCEPT ![t] = [ptr |-> FreshPtr(heap), size |-> Len(out.content)]]
                 /\ pc' = [pc EXCEPT ![t] = "send"]
                 /\ UNCHANGED ret
             [] out.kind = "fail" ->
                 /\ heap' = MessageBuffer_drop(heap, cur[t])
                 /\ cur' = [cur EXCEPT ![t] = NoBuf]
                 /\ Returns(t, "err", HandlerErr, << >>)
    /\ UNCHANGED <<slots, raws, inq, link, op, responses, sockvars>>

\* Respondent::respond: self.send(..)?; Ok(())
Respondent_respond_send(t) ==
    /\ op[t] = "respond" /\ pc[t] = "send"
    /\ \E nat \in NnSendOutcomes(heap, inq, "Respondent", cur[t].ptr, FlagsEmpty) :
        LET r == SPSend_send(heap, inq, "Respondent", cur[t], nat)
        IN  /\ heap' = r.heap
            /\ inq' = r.inq
            /\ log' = [log EXCEPT ![t] = Append(@, SendEvent(heap, cur[t].ptr, nat))]
            /\ IF r.res.ok
               THEN Returns(t, "ok", NoErr, << >>)
               ELSE Returns(t, "err", E_from(r.res.err), << >>)
    /\ cur' = [cur EXCEPT ![t] = NoBuf]
    /\ UNCHANGED <<slots, raws, link, op, responses, sockvars>>

\* ------------------------------------------------------------- socket.rs
\* Sockets and endpoints. The native socket table, the endpoints and the
\* option store belong to the native library; the program holds Socket and
\* Endpoint values.
MaxFds == 1         \* descriptors the native library hands out: 0..MaxFds-1
MaxEps == 2         \* endpoint ids of one socket: 1..MaxEps
MaxOpens == 2       \* sockets the native library opens in one behaviour

Fds == 0..(MaxFds - 1)
SockSlots == 1..MaxFds
EpIds == 1..MaxEps
Domains == {"SP", "SPRaw"}
Protocols == {"Pub", "Sub", "Bus", "Req", "Rep", "Push", "Pull",
              "Surveyor", "Respondent", "Pair"}

EINVAL == "EINVAL"
EMFILE == "EMFILE"
ETERM == "ETERM"
INVALID == Error(EINVAL)

\* A Socket binding: Socket(fd), or nothing held.
NoSock == [held |-> FALSE, fd |-> 0]
Socket(fd) == [held |-> TRUE, fd |-> fd]
\* An Endpoint value: Endpoint { socket, id }. gen is not a field of the
\* struct: it remembers which opening of the descriptor the endpoint was
\* created on.
Endpoint(fd, id, g) == [socket |-> fd, id |-> id, gen |-> g]

\* One native call as the wrapper made it and as the library answered it.
SysCall(fn, fd, arg, r, errno) ==
    [fn |-> fn, fd |-> fd, arg |-> arg, ret |-> r, errno |-> errno]
\* The wrapper operation that ran last, and what it returned.
NoOp == [op |-> "none", slot |-> 0, arg |-> << >>, res |-> Ok(<< >>)]
Op(o, i, arg, res) == [op |-> o, slot |-> i, arg |-> arg, res |-> res]

ClosedFd == [open |-> FALSE, gen |-> 0, closes |-> 0]

\* How many times descriptors 0..d have been handed out.
RECURSIVE Opens(_, _)
Opens(f, d) == IF d < 0 THEN 0 ELSE f[d].gen + Opens(f, d - 1)

\* nn_socket: a descriptor that is not open, or -1.
NnSocketOutcomes(f) ==
    {[ret |-> fd, errno |-> "none"] : fd \in {d \in Fds : ~f[d].open /\ Opens(f, MaxFds - 1) < MaxOpens}}
    \cup {[ret |-> -1, errno |-> EMFILE]}
nn_socket(f, nat) ==
    IF nat.ret = -1 THEN f
    ELSE [f EXCEPT ![nat.ret] = [open |-> TRUE, gen |-> @.gen + 1, closes |-> 0]]

\* nn_close: closes an open descriptor, with its endpoints; EBADF otherwise.
nn_close(f, fd) ==
    IF fd \in Fds
    THEN [f EXCEPT ![fd].open = FALSE,
                   ![fd].closes = IF @ < 2 THEN @ + 1 ELSE @]
    ELSE f
nn_close_eps(f, e, fd) ==
    IF fd \in Fds /\ f[fd].open THEN {x \in e : x.fd # fd} ELSE e

\* CString::new(addr): fails on an interior NUL byte, else appends the NUL.
CString_new(addr) ==
    IF \E k \in 1..Len(addr) : addr[k] = 0
    THEN Err("NulError")
    ELSE Ok(Append(addr, 0))
\* impl From<NulError> for Error
From_NulError(e) == Error(EINVAL)

\* nn_bind / nn_connect: a new endpoint id of the socket (the lowest id the
\* socket has no endpoint with), or -1.
FreeEpIds(f, e, fd) ==
    {x \in EpIds : fd \in Fds /\ f[fd].open /\ \A y \in e : ~(y.fd = fd /\ y.id = x)}
NnBindOutcomes(f, e, fd) ==
    {[ret |-> id, errno |-> "none"] :
        id \in {x \in FreeEpIds(f, e, fd) : \A y \in FreeEpIds(f, e, fd) : x <= y}}
    \cup {[ret |-> -1, errno |-> IF fd \in Fds /\ f[fd].open THEN EINVAL ELSE EBADF]}
nn_bind(f, e, fd, nat) ==
    IF nat.ret = -1 THEN e
    ELSE e \cup {[fd |-> fd, id |-> nat.ret, gen |-> f[fd].gen]}

\* nn_shutdown(s, how): removes endpoint how of the socket that has
\* descriptor s now, or fails.
NnShutdownOutcomes(f, e, fd, id) ==
    IF \E x \in e : x.fd = fd /\ x.id = id
    THEN {[ret |-> 0, errno |-> "none"], [ret |-> -1, errno |-> "EINTR"]}
    ELSE {[ret |-> -1, errno |-> IF fd \in Fds /\ f[fd].open THEN EINVAL ELSE EBADF]}
nn_shutdown(e, fd, id, nat) ==
    IF nat.ret = -1 THEN e ELSE {x \in e : ~(x.fd = fd /\ x.id = id)}

\* error_guard! on a socket-table call: Err(last_error()) when it returned -1.
Guarded(nat, v) == IF error_guard(nat.ret) THEN Err(last_error(nat)) ELSE Ok(v)

\* Socket::new(domain, protocol): nn_socket, error_guard!, Ok(Socket(fd)).
\* Req::new() and the other def_protocols! constructors wrap it with ?.
Socket_new(nat) == Guarded(nat, Socket(nat.ret))

SocketNew(i, domain, protocol) ==
    /\ ~socks[i].held
    /\ \A j \in 1..(i - 1) : socks[j].held
    /\ \E nat \in NnSocketOutcomes(fds) :
        LET r == Socket_new(nat)
        IN  /\ fds' = nn_socket(fds, nat)
            /\ socks' = [socks EXCEPT ![i] = IF r.ok THEN r.val ELSE NoSock]
            /\ sys' = <<SysCall("nn_socket", -1, <<domain, protocol>>, nat.ret, nat.errno)>>
            /\ last' = Op("Socket_new", i, <<domain, protocol>>, r)
    /\ UNCHANGED <<rawfds, eps, handles, opts, topics, msg, memvars, threadvars>>

\* Drop for Socket: nn_close(self.0).
Socket_drop_Twice(f, fd) == nn_close(nn_close(f, fd), fd)

Socket_drop(f, fd) == nn_close(f, fd)

SocketDrop(i) ==
    /\ socks[i].held
    /\ fds' = Socket_drop(fds, socks[i].fd)
    /\ eps' = nn_close_eps(fds, eps, socks[i].fd)
    /\ socks' = [socks EXCEPT ![i] = NoSock]
    /\ sys' = <<SysCall("nn_close", socks[i].fd, << >>, 0, "none")>>
    /\ last' = Op("drop", i, << >>, Ok(<< >>))
    /\ UNCHANGED <<rawfds, handles, opts, topics, msg, memvars, threadvars>>

\* Socket::into_raw_fd(self): mem::forget(self), the caller holds the
\* descriptor.
SocketIntoRawFd(i) ==
    /\ socks[i].held
    /\ rawfds' = rawfds \cup {socks[i].fd}
    /\ socks' = [socks EXCEPT ![i] = NoSock]
    /\ sys' = << >>
    /\ last' = Op("into_raw_fd", i, << >>, Ok(socks[i].fd))
    /\ UNCHANGED <<fds, eps, handles, opts, topics, msg, memvars, threadvars>>

\* Socket::bind(addr) and Socket::connect(addr): CString::new(addr)?, the
\* native call, error_guard!, Ok(Endpoint { socket: self.0, id }).
Socket_bind_NulIgnored(addr) == Ok(addr)

Socket_bind_c_addr(addr) == CString_new(addr)

SocketBind(i, fn, addr) ==
    /\ socks[i].held
    /\ Cardinality(handles) < MaxEps
    /\ LET c_addr == Socket_bind_c_addr(addr)
           fd == socks[i].fd
       IN  IF ~c_addr.ok
           THEN /\ sys' = << >>
                /\ last' = Op(fn, i, addr, Err(From_NulError(c_addr.err)))
                /\ UNCHANGED <<eps, handles>>
           ELSE \E nat \in NnBindOutcomes(fds, eps, fd) :
                LET r == Guarded(nat, Endpoint(fd, nat.ret, fds[fd].gen))
                IN  /\ eps' = nn_bind(fds, eps, fd, nat)
                    /\ handles' = IF r.ok THEN handles \cup {r.val} ELSE handles
                    /\ sys' = <<SysCall(IF fn = "bind" THEN "nn_bind" ELSE "nn_connect",
                                        fd, c_addr.val, nat.ret, nat.errno)>>
                    /\ last' = Op(fn, i, addr, r)
    /\ UNCHANGED <<fds, socks, rawfds, opts, topics, msg, memvars, threadvars>>

\* Endpoint::shutdown(self): nn_shutdown(self.socket, self.id), error_guard!.
Endpoint_shutdown_WholeSocket(e, fd, id, nat) ==
    IF nat.ret = -1 THEN e ELSE {x \in e : x.fd # fd}

Endpoint_shutdown(e, fd, id, nat) == nn_shutdown(e, fd, id, nat)

EndpointShutdown(h) ==
    /\ h \in handles
    /\ \E nat \in NnShutdownOutcomes(fds, eps, h.socket, h.id) :
        /\ eps' = Endpoint_shutdown(eps, h.socket, h.id, nat)
        /\ sys' = <<SysCall("nn_shutdown", h.socket, h.id, nat.ret, nat.errno)>>
        /\ last' = Op("shutdown", 0, h, Guarded(nat, << >>))
    /\ handles' = handles \ {h}
    /\ UNCHANGED <<fds, socks, rawfds, opts, topics, msg, memvars, threadvars>>

\* ------------------------------------------- SPRecv / SPSend (protocol.rs)
\* The eight send and receive methods: recv, recv_buf, send and send_buf pass
\* Flags::empty(), the _nb ones pass Flags::DONTWAIT.
SPVariants == {"recv", "recv_nb", "recv_buf", "recv_buf_nb",
               "send", "send_nb", "send_buf", "send_buf_nb"}
NonBlocking == {"recv_nb", "recv_buf_nb", "send_nb", "send_buf_nb"}

SPFlags_AllBlocking(v) == FlagsEmpty

SPFlags(v) == IF v \in NonBlocking THEN {DONTWAIT} ELSE FlagsEmpty

\* Whether the native call may put the caller to sleep: never with
\* NN_DONTWAIT, possibly without.
Waits(flags) == IF DONTWAIT \in flags THEN {FALSE} ELSE BOOLEAN
FlagArg(flags, w) == [flags |-> flags, waited |-> w]

\* nn_recv(fd, buf, len, flags) into a buffer of the caller: a message of the
\* environment's peers, of which the first len bytes are copied; the return
\* value is the length of the message.
NnRecvBufOutcomes(flags) ==
    {[ret |-> Len(c), errno |-> "none", content |-> c] : c \in ByteSeqs}
    \cup {[ret |-> -1, errno |-> e, content |-> << >>] : e \in Errnos(flags)}
nn_recv_buf(old, nat) ==
    IF nat.ret = -1 THEN old
    ELSE [k \in 1..Len(old) |-> IF k <= Len(nat.content) THEN nat.content[k] ELSE old[k]]

\* Socket::recv_buf: nn_recv into the slice, error_guard!, Ok(size).
Socket_recv_buf(h, buffer, nat) ==
    [heap |-> [Touch(h, buffer.ptr) EXCEPT
                  ![buffer.ptr].bytes = nn_recv_buf(Deref(h, buffer), nat)],
     res |-> Guarded(nat, nat.ret)]
\* Socket::send_buf: nn_send of the slice (the transport copies it),
\* error_guard!, Ok(size).
Socket_send_buf(h, buffer, nat) ==
    [heap |-> Touch(h, buffer.ptr), res |-> Guarded(nat, nat.ret)]

\* SPSend::send and send_nb of a MessageBuffer the program holds.
SPSendMsg(i, v) ==
    /\ slots[i] # NoBuf
    /\ \E nat \in NnSendOutcomes(heap, inq, "Req", slots[i].ptr, SPFlags(v)),
          w \in Waits(SPFlags(v)) :
        LET r == Socket_send(heap, inq, "Req", slots[i], SPFlags(v), nat)
        IN  /\ heap' = r.heap
            /\ inq' = r.inq
            /\ sys' = <<SysCall("nn_send", "Req", FlagArg(SPFlags(v), w), nat.ret, nat.errno)>>
            /\ last' = Op(v, i, << >>, r.res)
    /\ slots' = [slots EXCEPT ![i] = NoBuf]
    /\ UNCHANGED <<raws, link, threadvars, fds, socks, rawfds, eps, handles, opts, topics, msg>>

\* SPRecv::recv and recv_nb into a new binding.
SPRecvMsg(i, v) ==
    /\ slots[i] = NoBuf
    /\ \E nat \in NnRecvOutcomes(heap, inq, "Req", SPFlags(v)), w \in Waits(SPFlags(v)) :
        LET r == Socket_recv(heap, inq, "Req", SPFlags(v), nat)
        IN  /\ heap' = r.heap
            /\ inq' = r.inq
            /\ slots' = [slots EXCEPT ![i] = IF r.res.ok THEN r.res.val ELSE NoBuf]
            /\ sys' = <<SysCall("nn_recv", "Req", FlagArg(SPFlags(v), w), nat.ret, nat.errno)>>
            /\ last' = Op(v, i, << >>, r.res)
    /\ UNCHANGED <<raws, link, threadvars, fds, socks, rawfds, eps, handles, opts, topics, msg>>

\* SPSend::send_buf and send_buf_nb of the bytes of a buffer.
SPSendBuf(i, v) ==
    /\ slots[i] # NoBuf
    /\ \E nat \in NnSendOutcomes(heap, inq, "Req", slots[i].ptr, SPFlags(v)),
          w \in Waits(SPFlags(v)) :
        LET r == Socket_send_buf(heap, slots[i], nat)
        IN  /\ heap' = r.heap
            /\ sys' = <<SysCall("nn_send", "Req", FlagArg(SPFlags(v), w), nat.ret, nat.errno)>>
            /\ last' = Op(v, i, << >>, r.res)
    /\ UNCHANGED <<slots, raws, inq, link, threadvars, fds, socks, rawfds, eps, handles, opts, topics, msg>>

\* SPRecv::recv_buf and recv_buf_nb into the bytes of a buffer.
SPRecvBuf(i, v) ==
    /\ slots[i] # NoBuf
    /\ \E nat \in NnRecvBufOutcomes(SPFlags(v)), w \in Waits(SPFlags(v)) :
        LET r == Socket_recv_buf(heap, slots[i], nat)
        IN  /\ heap' = r.heap
            /\ sys' = <<SysCall("nn_recv", "Req", FlagArg(SPFlags(v), w), nat.ret, nat.errno)>>
            /\ last' = Op(v, i, << >>, r.res)
    /\ UNCHANGED <<slots, raws, inq, link, threadvars, fds, socks, rawfds, eps, handles, opts, topics, msg>>

\* ------------------------------------------- socket options (socket.rs)
\* What a panic!, a failed assert! or an unwrap() of an Err leaves: the
\* operation returns no Result.
Panic == Err(Error("panic"))
IsPanic(res) == ~res.ok /\ res.err = Error("panic")

ENOPROTOOPT == "ENOPROTOOPT"
I32Samples == {-2147483647 - 1, -1, 0, 1, 256, 2147483647}
Min(a, b) == IF a <= b THEN a ELSE b

\* An i32 as the four bytes in memory the native call is given (two's
\* complement, little endian), and back.
i32_to_ne_bytes_Swapped(v) == [k \in 1..4 |-> (v \div (256 ^ (4 - k))) % 256]

i32_to_ne_bytes(v) == [k \in 1..4 |-> (v \div (256 ^ (k - 1))) % 256]

i32_from_ne_bytes(b) ==
    b[1] + 256 * b[2] + 65536 * b[3]
    + 16777216 * (IF b[4] >= 128 THEN b[4] - 256 ELSE b[4])

\* The bytes of a buffer after the native call wrote into its front.
Overlay(buf, written) ==
    [k \in 1..Len(buf) |-> IF k <= Len(written) THEN written[k] ELSE buf[k]]
\* A byte string of a given length, as option values and topics.
Pattern(n) == [k \in 1..n |-> 1 + (k % 7)]

\* The value an option holds natively, and the typed value the program set
\* it from last, if it did.
NotSet == [type |-> "none", v |-> 0]
OptValue(bytes, type, v) == [bytes |-> bytes, set |-> [type |-> type, v |-> v]]
OptDefault(o) ==
    IF o = "SOCKET_NAME" THEN [bytes |-> <<48>>, set |-> NotSet]
    ELSE IF o = "DOMAIN" THEN [bytes |-> i32_to_ne_bytes(1), set |-> NotSet]
    ELSE [bytes |-> i32_to_ne_bytes(0), set |-> NotSet]

\* nn_getsockopt(fd, level, option, optval, &optvallen): on success the
\* front of the value is copied, as much as fits, and optvallen becomes the
\* size of the value; on failure -1.
NnGetsockoptOutcomes(store, o, cap) ==
    {[ret |-> 0, errno |-> "none", size |-> Len(store[o].bytes),
      written |-> SubSeq(store[o].bytes, 1, Min(cap, Len(store[o].bytes)))]}
    \cup {[ret |-> -1, errno |-> e, size |-> cap, written |-> << >>] :
            e \in {ENOPROTOOPT, ETERM}}
\* nn_setsockopt(fd, level, option, optval, optvallen): the bytes are stored
\* as they are, or -1.
NnSetsockoptOutcomes == {[ret |-> 0, errno |-> "none"], [ret |-> -1, errno |-> EINVAL]}
nn_setsockopt(store, o, bytes, type, v, nat) ==
    IF nat.ret = -1 THEN store ELSE [store EXCEPT ![o] = OptValue(bytes, type, v)]

GetCall(o, cap, nat) ==
    SysCall("nn_getsockopt", 0, [option |-> o, cap |-> cap, size |-> nat.size],
            nat.ret, nat.errno)
SetCall(o, bytes, nat) ==
    SysCall("nn_setsockopt", 0, [option |-> o, bytes |-> bytes], nat.ret, nat.errno)

\* impl OptionGet for i32: value = 0, size = 4, nn_getsockopt, error_guard!,
\* Ok(value).
OptionGet_i32(nat) ==
    Guarded(nat, i32_from_ne_bytes(Overlay(<<0, 0, 0, 0>>, nat.written)))
\* impl OptionGet for bool: the i32, mapped with v != 0.
OptionGet_bool(nat) ==
    LET r == OptionGet_i32(nat) IN IF r.ok THEN Ok(r.val # 0) ELSE r
\* impl OptionGet for Vec<u8>: vec![0; 128], nn_getsockopt, error_guard!,
\* value.truncate(size), Ok(value).
BUF_SIZE == 128
Truncate(v, n) == SubSeq(v, 1, Min(Len(v), n))
OptionGet_Vec(nat) ==
    Guarded(nat, Truncate(Overlay([k \in 1..BUF_SIZE |-> 0], nat.written), nat.size))
OptionGet(type, nat) ==
    IF type = "i32" THEN OptionGet_i32(nat)
    ELSE IF type = "bool" THEN OptionGet_bool(nat)
    ELSE OptionGet_Vec(nat)
OptionGetCap(type) == IF type = "Vec" THEN BUF_SIZE ELSE 4

\* impl OptionSet for i32, for bool (val as i32) and for &[u8]: the bytes
\* passed to nn_setsockopt.
OptionSet_bytes(type, v) ==
    IF type = "i32" THEN i32_to_ne_bytes(v)
    ELSE IF type = "bool" THEN i32_to_ne_bytes(IF v THEN 1 ELSE 0)
    ELSE v

\* Socket::get_option::<T>(level, option)
SocketGetOption(o, type) ==
    /\ \E nat \in NnGetsockoptOutcomes(opts, o, OptionGetCap(type)) :
        /\ sys' = <<GetCall(o, OptionGetCap(type), nat)>>
        /\ last' = Op("get_option", 0, [option |-> o, type |-> type], OptionGet(type, nat))
    /\ UNCHANGED <<opts, topics, msg, fds, socks, rawfds, eps, handles, memvars, threadvars>>

\* Socket::set_option::<T>(level, option, value)
SocketSetOption(o, type, v) ==
    /\ \E nat \in NnSetsockoptOutcomes :
        /\ opts' = nn_setsockopt(opts, o, OptionSet_bytes(type, v), type, v, nat)
        /\ sys' = <<SetCall(o, OptionSet_bytes(type, v), nat)>>
        /\ last' = Op("set_option", 0, [option |-> o, type |-> type, v |-> v],
                      Guarded(nat, << >>))
    /\ UNCHANGED <<topics, msg, fds, socks, rawfds, eps, handles, memvars, threadvars>>

\* ------------------------------------------- typed option wrappers (protocol.rs)
\* Result::unwrap: the value, or a panic on Err.
Unwrap(res) == IF res.ok THEN res ELSE Panic

\* sock_option! getters (reconnect_interval, rcv_timeout, ipv4_only, ...)
\* and Surveyor::get_survey_deadline: get_option::<T>(..).unwrap()
sock_option_getter(type, nat) == Unwrap(OptionGet(type, nat))

\* SPSocket::domain: the NN_DOMAIN option unwrapped and matched against
\* AF_SP and AF_SP_RAW, anything else panics.
AF_SP == 1
AF_SP_RAW == 2
SPSocket_domain(nat) ==
    LET dom == Unwrap(OptionGet_i32(nat)) IN
    IF ~dom.ok THEN dom
    ELSE IF dom.val = AF_SP THEN Ok("SP")
    ELSE IF dom.val = AF_SP_RAW THEN Ok("SPRaw")
    ELSE Panic

\* NN_SUB_SUBSCRIBE / NN_SUB_UNSUBSCRIBE in the native library: a topic that
\* is not subscribed cannot be removed.
Topics == {<<2>>}
NnSubOutcomes(o, topic) ==
    IF o = "SUB_UNSUBSCRIBE" /\ topic \notin topics
    THEN {[ret |-> -1, errno |-> EINVAL]}
    ELSE {[ret |-> 0, errno |-> "none"], [ret |-> -1, errno |-> ETERM]}
nn_setsockopt_sub(old, o, topic, nat) ==
    IF nat.ret = -1 THEN old
    ELSE IF o = "SUB_SUBSCRIBE" THEN old \cup {topic}
    ELSE old \ {topic}
\* Sub::subscribe and Sub::unsubscribe: set_option(NN_SUB, .., topic).unwrap()
Sub_set_topic(nat) == Unwrap(Guarded(nat, << >>))

\* a getter generated by sock_option!, or get_survey_deadline
SockOptionGetter(name, o, type) ==
    /\ \E nat \in NnGetsockoptOutcomes(opts, o, OptionGetCap(type)) :
        /\ sys' = <<GetCall(o, OptionGetCap(type), nat)>>
        /\ last' = Op(name, 0, [option |-> o, type |-> type], sock_option_getter(type, nat))
    /\ UNCHANGED <<opts, topics, msg, fds, socks, rawfds, eps, handles, memvars, threadvars>>

SPSocketDomain ==
    /\ \E nat \in NnGetsockoptOutcomes(opts, "DOMAIN", 4) :
        /\ sys' = <<GetCall("DOMAIN", 4, nat)>>
        /\ last' = Op("domain", 0, [option |-> "DOMAIN", type |-> "i32"], SPSocket_domain(nat))
    /\ UNCHANGED <<opts, topics, msg, fds, socks, rawfds, eps, handles, memvars, threadvars>>

SubSubscribe(o, topic) ==
    /\ \E nat \in NnSubOutcomes(o, topic) :
        /\ topics' = nn_setsockopt_sub(topics, o, topic, nat)
        /\ sys' = <<SetCall(o, topic, nat)>>
        /\ last' = Op(IF o = "SUB_SUBSCRIBE" THEN "subscribe" ELSE "unsubscribe", 0,
                      [option |-> o, type |-> "slice", v |-> topic], Sub_set_topic(nat))
    /\ UNCHANGED <<opts, msg, fds, socks, rawfds, eps, handles, memvars, threadvars>>

\* ------------------------------------------- GetOption (options.rs)
\* The option types with a primitive_option! instance and their sizes in
\* bytes on a 64-bit target.
ScalarTypes == {"i32", "usize", "u64", "Milliseconds", "nng_sockaddr"}
SizeOf(T) ==
    IF T \in {"i32", "Milliseconds"} THEN 4
    ELSE IF T \in {"usize", "u64"} THEN 8
    ELSE 136

\* What the getter closure does with (ptr, &mut size): it fails, or it
\* reports a size and leaves a value behind the pointer.
GetterSizes == {0, 4, 8, 128, 129, 136, 200}
GetterVals == {0, 7}
GetterOutcomes ==
    [ok : {TRUE}, err : {NoErr}, size : GetterSizes, val : GetterVals]
    \cup [ok : {FALSE}, err : {Error(ENOPROTOOPT), Error(EBADF)}, size : {0}, val : {0}]
GetterCall(cap, out) ==
    SysCall("getter", 0, [cap |-> cap, size |-> out.size, val |-> out.val],
            IF out.ok THEN 0 ELSE -1, out.err.code)

\* primitive_option!: getter(..)?; a size other than size_of::<T>() is
\* Err(INVALID); else Ok(val).
primitive_option_NoSizeCheck(T, out) ==
    IF ~out.ok THEN Err(out.err) ELSE Ok(out.val)

primitive_option(T, out) ==
    IF ~out.ok THEN Err(out.err)
    ELSE IF out.size # SizeOf(T) THEN Err(INVALID)
    ELSE Ok(out.val)

\* impl GetOption for Vec<u8>: the Result and the getter calls made. The
\* second call is made with the capacity reserved for the size the first
\* one reported; a size beyond it fails the assert!.
Vec_get_option_OneCall(out1, out2) ==
    [res |-> IF ~out1.ok THEN Err(out1.err)
             ELSE IF out1.size > BUF_SIZE THEN Panic
             ELSE Ok([len |-> out1.size]),
     calls |-> <<GetterCall(BUF_SIZE, out1)>>]

Vec_get_option(out1, out2) ==
    IF ~out1.ok
    THEN [res |-> Err(out1.err), calls |-> <<GetterCall(BUF_SIZE, out1)>>]
    ELSE IF out1.size > BUF_SIZE
    THEN [res |-> IF ~out2.ok THEN Err(out2.err)
                  ELSE IF out2.size > out1.size THEN Panic
                  ELSE Ok([len |-> out2.size]),
          calls |-> <<GetterCall(BUF_SIZE, out1), GetterCall(out1.size, out2)>>]
    ELSE [res |-> Ok([len |-> out1.size]), calls |-> <<GetterCall(BUF_SIZE, out1)>>]

\* <T as GetOption>::get_option(getter) for a scalar T
GetOptionScalar(T) ==
    /\ \E out \in GetterOutcomes :
        /\ sys' = <<GetterCall(SizeOf(T), out)>>
        /\ last' = Op("GetOption", 0, [option |-> "getter", type |-> T],
                      primitive_option(T, out))
    /\ UNCHANGED <<opts, topics, msg, fds, socks, rawfds, eps, handles, memvars, threadvars>>

\* <Vec<u8> as GetOption>::get_option(getter)
GetOptionVec ==
    /\ \E out1 \in GetterOutcomes, out2 \in GetterOutcomes :
        /\ sys' = Vec_get_option(out1, out2).calls
        /\ last' = Op("GetOption", 0, [option |-> "getter", type |-> "Vec"],
                      Vec_get_option(out1, out2).res)
    /\ UNCHANGED <<opts, topics, msg, fds, socks, rawfds, eps, handles, memvars, threadvars>>

\* ------------------------------------------- Protocol::new (protocols.rs)
\* nng_<proto>_open(&mut sock): 0 and a new open handle in sock, or an
\* error code with sock left as it was.
NNG_ENOMEM == 2
NngOpens == {"nng_req0_open", "nng_rep0_open"}
NngOpenOutcomes(f) ==
    {[ret |-> 0, errno |-> "none", sock |-> fd] :
        fd \in {d \in Fds : ~f[d].open /\ Opens(f, MaxFds - 1) < MaxOpens}}
    \cup {[ret |-> NNG_ENOMEM, errno |-> "NNG_ENOMEM", sock |-> 0]}
nng_open(f, nat) ==
    IF nat.ret # 0 THEN f
    ELSE [f EXCEPT ![nat.sock] = [open |-> TRUE, gen |-> @.gen + 1, closes |-> 0]]

\* def_protos! new(): sock = 0; assert!($open(&mut sock) > 0);
\* $name { sock: Socket::from_raw(sock) }
Protocol_new(nat) == IF nat.ret > 0 THEN Ok(Socket(nat.sock)) ELSE Panic

ProtocolNew(i, open) ==
    /\ ~socks[i].held
    /\ \A j \in 1..(i - 1) : socks[j].held
    /\ \E nat \in NngOpenOutcomes(fds) :
        LET r == Protocol_new(nat)
        IN  /\ fds' = nng_open(fds, nat)
            /\ socks' = [socks EXCEPT ![i] = IF r.ok THEN r.val ELSE NoSock]
            /\ sys' = <<SysCall(open, -1, << >>, nat.ret, nat.errno)>>
            /\ last' = Op("Protocol_new", i, open, r)
    /\ UNCHANGED <<rawfds, eps, handles, opts, topics, msg, memvars, threadvars>>

\* ------------------------------------------- Message (message.rs)
MaxMsgLen == 2      \* longest message body and header, in bytes
MaxBufLen == 3      \* longest destination buffer of a read

\* nng_msg: a body and a header.
NngMsg(body, header) == [body |-> body, header |-> header]
MsgData == UNION {BytesOfLen(n) : n \in 1..MaxMsgLen}
Bufs == {Zeros(n) : n \in 0..MaxBufLen}

nng_msg_len(m) == Len(m.body)
nng_msg_header_len(m) == Len(m.header)
\* nng_msg_append / nng_msg_header_append: 0 with the data added at the
\* end, or NNG_ENOMEM with the message as it was.
NngAppendOutcomes == {0, NNG_ENOMEM}
nng_msg_append(m, data, r) ==
    IF r = 0 THEN [m EXCEPT !.body = @ \o data] ELSE m
nng_msg_header_append(m, data, r) ==
    IF r = 0 THEN [m EXCEPT !.header = @ \o data] ELSE m
\* nng_msg_chop / nng_msg_header_chop: removes n bytes from the end;
\* nng_msg_trim: removes n bytes from the front; nng_msg_clear: empties the
\* body.
nng_msg_chop(m, n) ==
    IF n <= Len(m.body) THEN [m EXCEPT !.body = SubSeq(@, 1, Len(@) - n)] ELSE m
nng_msg_header_chop(m, n) ==
    IF n <= Len(m.header) THEN [m EXCEPT !.header = SubSeq(@, 1, Len(@) - n)] ELSE m
nng_msg_trim(m, n) ==
    IF n <= Len(m.body) THEN [m EXCEPT !.body = SubSeq(@, n + 1, Len(@))] ELSE m
nng_msg_clear(m) == [m EXCEPT !.body = << >>]

\* oom_check!: assert!(res == 0, "Out of Memory!")
oom_check(r) == IF r = 0 THEN Ok(<< >>) ELSE Panic

\* Message::truncate(len) and MessageHeader::truncate(len)
Message_truncate_ChopsLen(m, len) ==
    IF len < nng_msg_len(m) THEN nng_msg_chop(m, len) ELSE m

Message_truncate(m, len) ==
    IF len < nng_msg_len(m) THEN nng_msg_chop(m, nng_msg_len(m) - len) ELSE m
MessageHeader_truncate(m, len) ==
    IF len < nng_msg_header_len(m)
    THEN nng_msg_header_chop(m, nng_msg_header_len(m) - len)
    ELSE m

\* impl io::Read for Message: read. n = min(buf.len(), self.len());
\* buf.copy_from_slice(&body[..n]) panics unless buf.len() = n, before the
\* message is touched; then nng_msg_trim(n) and Ok(n).
Message_read(m, buf) ==
    LET n == Min(Len(buf), nng_msg_len(m)) IN
    IF Len(buf) # n
    THEN [res |-> Panic, msg |-> m]
    ELSE [res |-> Ok([n |-> n, buf |-> SubSeq(m.body, 1, n)]),
          msg |-> nng_msg_trim(m, n)]

\* impl io::Read for Message: read_to_end. buf.extend_from_slice(&self);
\* self.clear(); Ok(self.len())
Message_read_to_end(m, vec) ==
    [res |-> Ok([n |-> nng_msg_len(nng_msg_clear(m)), buf |-> vec \o m.body]),
     msg |-> nng_msg_clear(m)]

\* What an operation on the message was given: its arguments and the
\* message before the call.
\* the operation made before it, and for an append the message it was made on.
PrevOp ==
    [op |-> last.op, ok |-> last.res.ok,
     before |-> IF last.op = "append" THEN last.arg.before ELSE NngMsg(<< >>, << >>)]
MsgArg(m, len, data) == [before |-> m, len |-> len, data |-> data, prev |-> PrevOp]

\* Message::append(data): oom_check!(nng_msg_append(ptr, data, len))
Message_append_Inserts(m, data, r) ==
    [res |-> oom_check(r), msg |-> IF r = 0 THEN [m EXCEPT !.body = data \o @] ELSE m]

Message_append(m, data, r) ==
    [res |-> oom_check(r), msg |-> nng_msg_append(m, data, r)]
\* MessageHeader::append(data)
MessageHeader_append(m, data, r) ==
    [res |-> oom_check(r), msg |-> nng_msg_header_append(m, data, r)]

MessageAppend(data) ==
    /\ Len(msg.body) + Len(data) <= MaxMsgLen
    /\ \E r \in NngAppendOutcomes :
        /\ msg' = Message_append(msg, data, r).msg
        /\ sys' = <<SysCall("nng_msg_append", 0, data, r, "none")>>
        /\ last' = Op("append", 0, MsgArg(msg, Len(data), data),
                      Message_append(msg, data, r).res)
    /\ UNCHANGED <<opts, topics, fds, socks, rawfds, eps, handles, memvars, threadvars>>

MessageHeaderAppend(data) ==
    /\ Len(msg.header) + Len(data) <= MaxMsgLen
    /\ \E r \in NngAppendOutcomes :
        /\ msg' = MessageHeader_append(msg, data, r).msg
        /\ sys' = <<SysCall("nng_msg_header_append", 0, data, r, "none")>>
        /\ last' = Op("header_append", 0, MsgArg(msg, Len(data), data),
                      MessageHeader_append(msg, data, r).res)
    /\ UNCHANGED <<opts, topics, fds, socks, rawfds, eps, handles, memvars, threadvars>>

MessageTruncate(len) ==
    /\ msg' = Message_truncate(msg, len)
    /\ sys' = IF len < nng_msg_len(msg)
              THEN <<SysCall("nng_msg_chop", 0, nng_msg_len(msg) - len, 0, "none")>>
              ELSE << >>
    /\ last' = Op("truncate", 0, MsgArg(msg, len, << >>), Ok(<< >>))
    /\ UNCHANGED <<opts, topics, fds, socks, rawfds, eps, handles, memvars, threadvars>>

MessageHeaderTruncate(len) ==
    /\ msg' = MessageHeader_truncate(msg, len)
    /\ sys' = IF len < nng_msg_header_len(msg)
              THEN <<SysCall("nng_msg_header_chop", 0, nng_msg_header_len(msg) - len, 0, "none")>>
              ELSE << >>
    /\ last' = Op("header_truncate", 0, MsgArg(msg, len, << >>), Ok(<< >>))
    /\ UNCHANGED <<opts, topics, fds, socks, rawfds, eps, handles, memvars, threadvars>>

MessageRead(buf) ==
    /\ msg' = Message_read(msg, buf).msg
    /\ sys' = IF Message_read(msg, buf).res.ok
              THEN <<SysCall("nng_msg_trim", 0, Message_read(msg, buf).res.val.n, 0, "none")>>
              ELSE << >>
    /\ last' = Op("read", 0, MsgArg(msg, Len(buf), buf), Message_read(msg, buf).res)
    /\ UNCHANGED <<opts, topics, fds, socks, rawfds, eps, handles, memvars, threadvars>>

MessageReadToEnd(vec) ==
    /\ msg' = Message_read_to_end(msg, vec).msg
    /\ sys' = <<SysCall("nng_msg_clear", 0, << >>, 0, "none")>>
    /\ last' = Op("read_to_end", 0, MsgArg(msg, Len(vec), vec), Message_read_to_end(msg, vec).res)
    /\ UNCHANGED <<opts, topics, fds, socks, rawfds, eps, handles, memvars, threadvars>>

\* ------------------------------------------- protocol types (protocol.rs)
\* def_protocols!: the traits each protocol type implements besides
\* SPSocket, and its Companion type.
Traits(T) ==
    IF T \in {"Pub", "Push"} THEN {"SPSend"}
    ELSE IF T \in {"Sub", "Pull"} THEN {"SPRecv"}
    ELSE IF T \in {"Bus", "Pair"} THEN {"SPSend", "SPRecv", "Loopback"}
    ELSE {"SPSend", "SPRecv"}
Companion_OneWay(T) ==
    IF T \in {"Pub", "Sub"} THEN "Sub"
    ELSE IF T = "Req" THEN "Rep" ELSE IF T = "Rep" THEN "Req"
    ELSE IF T = "Push" THEN "Pull" ELSE IF T = "Pull" THEN "Push"
    ELSE IF T = "Surveyor" THEN "Respondent"
    ELSE IF T = "Respondent" THEN "Surveyor"
    ELSE T

Companion(T) ==
    IF T = "Pub" THEN "Sub" ELSE IF T = "Sub" THEN "Pub"
    ELSE IF T = "Req" THEN "Rep" ELSE IF T = "Rep" THEN "Req"
    ELSE IF T = "Push" THEN "Pull" ELSE IF T = "Pull" THEN "Push"
    ELSE IF T = "Surveyor" THEN "Respondent"
    ELSE IF T = "Respondent" THEN "Surveyor"
    ELSE T

\* The trait a method of SPSend / SPRecv belongs to, and the native call it
\* ends in.
TraitOf(v) == IF v \in {"send", "send_nb", "send_buf", "send_buf_nb"} THEN "SPSend" ELSE "SPRecv"
NativeOf(v) == IF TraitOf(v) = "SPSend" THEN "nn_send" ELSE "nn_recv"
\* The native send or receive on the one socket of the wrapper: a length,
\* or -1.
NnIoOutcomes(flags) ==
    {[ret |-> 1, errno |-> "none"]}
    \cup {[ret |-> -1, errno |-> e] : e \in Errnos(flags)}
\* nn_device(s1, s2) returns only with an error.
NnDeviceOutcomes == {[ret |-> -1, errno |-> ETERM], [ret |-> -1, errno |-> EBADF]}

\* A method of SPSend or SPRecv, called on a wrapper of type T: it exists
\* only if T implements the trait.
ProtoMethod(T, v) ==
    /\ TraitOf(v) \in Traits(T)
    /\ \E nat \in NnIoOutcomes(SPFlags(v)) :
        /\ sys' = <<SysCall(NativeOf(v), 0, SPFlags(v), nat.ret, nat.errno)>>
        /\ last' = Op(v, 0, [type |-> T, via |-> TraitOf(v), companion |-> T],
                      Guarded(nat, nat.ret))
    /\ UNCHANGED <<opts, topics, msg, fds, socks, rawfds, eps, handles, memvars, threadvars>>

\* SPSocket::socket() gives the wrapper's Socket, whose send, recv, send_buf
\* and recv_buf are public: wrapper.socket().send(buffer, flags).
ProtoSocketMethod(T, v, flags) ==
    /\ \E nat \in NnIoOutcomes(flags) :
        /\ sys' = <<SysCall(NativeOf(v), 0, flags, nat.ret, nat.errno)>>
        /\ last' = Op(v, 0, [type |-> T, via |-> "socket", companion |-> T],
                      Guarded(nat, nat.ret))
    /\ UNCHANGED <<opts, topics, msg, fds, socks, rawfds, eps, handles, memvars, threadvars>>

\* SPSocket::device(&self, companion: &Self::Companion)
ProtoDevice(T, U) ==
    /\ U = Companion(T)
    /\ \E nat \in NnDeviceOutcomes :
        /\ sys' = <<SysCall("nn_device", 0, 1, nat.ret, nat.errno)>>
        /\ last' = Op("device", 0, [type |-> T, via |-> "SPSocket", companion |-> U],
                      Err(last_error(nat)))
    /\ UNCHANGED <<opts, topics, msg, fds, socks, rawfds, eps, handles, memvars, threadvars>>

\* Loopback::loopback_device(&self)
ProtoLoopbackDevice(T) ==
    /\ "Loopback" \in Traits(T)
    /\ \E nat \in NnDeviceOutcomes :
        /\ sys' = <<SysCall("nn_device", 0, -1, nat.ret, nat.errno)>>
        /\ last' = Op("loopback_device", 0, [type |-> T, via |-> "Loopback", companion |-> T],
                      Err(last_error(nat)))
    /\ UNCHANGED <<opts, topics, msg, fds, socks, rawfds, eps, handles, memvars, threadvars>>

\* ------------------------------------------- SocketAddr (address.rs)
AddrPathLen == 2    \* length of sa_path (NNG_MAXADDRLEN), cut down
NNG_AF_UNSPEC == 0
NNG_AF_INPROC == 1
NNG_AF_IPC == 2
NNG_AF_INET == 3
NNG_AF_INET6 == 4
NNG_AF_ZT == 5
\* Values of the u16 discriminant: the six families, the next value and the
\* largest one.
Families == {NNG_AF_UNSPEC, NNG_AF_INPROC, NNG_AF_IPC, NNG_AF_INET, NNG_AF_INET6,
             NNG_AF_ZT, NNG_AF_ZT + 1, 65535}
\* nng_sockaddr: the discriminant and what the views of the union read
\* (s_path / s_inproc, s_in / s_in6, s_zt).
NngSockaddrs ==
    [s_family : Families, sa_path : BytesOfLen(AddrPathLen), sa_port : {0, 80},
     sa_addr : {0, 1}, sa_nwid : {7}]

\* extract_path: the bytes of sa_path before the first 0, all of them if
\* there is none.
extract_path(addr) ==
    LET path == addr.sa_path
        zs == {k \in 1..Len(path) : path[k] = 0}
        end == IF zs = {} THEN Len(path) ELSE (CHOOSE k \in zs : \A j \in zs : k <= j) - 1
    IN SubSeq(path, 1, end)

\* impl From<nng_sockaddr> for SocketAddr
SocketAddr_from_UnspecFails(sockaddr) ==
    IF sockaddr.s_family = NNG_AF_INPROC
    THEN [kind |-> "InProc", path |-> extract_path(sockaddr), port |-> 0, addr |-> 0, nwid |-> 0]
    ELSE [kind |-> "Error", path |-> << >>, port |-> 0, addr |-> 0, nwid |-> 0]

SocketAddr_from(sockaddr) ==
    IF sockaddr.s_family = NNG_AF_INPROC
    THEN [kind |-> "InProc", path |-> extract_path(sockaddr), port |-> 0, addr |-> 0, nwid |-> 0]
    ELSE IF sockaddr.s_family = NNG_AF_IPC
    THEN [kind |-> "Ipc", path |-> extract_path(sockaddr), port |-> 0, addr |-> 0, nwid |-> 0]
    ELSE IF sockaddr.s_family = NNG_AF_INET
    THEN [kind |-> "InetV4", path |-> << >>, port |-> sockaddr.sa_port,
          addr |-> sockaddr.sa_addr, nwid |-> 0]
    ELSE IF sockaddr.s_family = NNG_AF_INET6
    THEN [kind |-> "InetV6", path |-> << >>, port |-> sockaddr.sa_port,
          addr |-> sockaddr.sa_addr, nwid |-> 0]
    ELSE IF sockaddr.s_family = NNG_AF_ZT
    THEN [kind |-> "ZeroTier", path |-> << >>, port |-> sockaddr.sa_port,
          addr |-> 0, nwid |-> sockaddr.sa_nwid]
    ELSE [kind |-> "Unspecified", path |-> << >>, port |-> 0, addr |-> 0, nwid |-> 0]

\* SocketAddr::from(sockaddr)
SocketAddrFrom(sockaddr) ==
    /\ sys' = << >>
    /\ last' = Op("SocketAddr_from", 0, sockaddr, Ok(SocketAddr_from(sockaddr)))
    /\ UNCHANGED <<opts, topics, msg, fds, socks, rawfds, eps, handles, memvars, threadvars>>

OptNames == {"RCVTIMEO", "IPV4ONLY", "SOCKET_NAME", "DOMAIN"}
SockInit ==
    /\ fds = [fd \in Fds |-> ClosedFd]
    /\ socks = [i \in SockSlots |-> NoSock]
    /\ rawfds = {}
    /\ eps = {}
    /\ handles = {}
    /\ opts = [o \in OptNames |-> OptDefault(o)]
    /\ topics = {}
    /\ msg = NngMsg(<< >>, << >>)
    /\ sys = << >>
    /\ last = NoOp

Init ==
    /\ heap = [a \in AllocIds |-> Unalloc]
    /\ slots = [i \in Slots |-> NoBuf]
    /\ raws = {}
    /\ inq = [s \in Sockets |-> << >>]
    /\ link = [s \in Sockets |-> "env"]
    /\ pc = [t \in Threads |-> "idle"]
    /\ op = [t \in Threads |-> "none"]
    /\ cur = [t \in Threads |-> NoBuf]
    /\ responses = [t \in Threads |-> << >>]
    /\ ret = [t \in Threads |-> NoRet]
    /\ log = [t \in Threads |-> << >>]
    /\ SockInit

NextAlloc ==
    \/ \E i \in Slots, n \in 0..MaxLen : New(i, n)
    \/ \E i \in Slots, n \in 0..MaxLen : Zeroed(i, n)
    \/ \E i \in Slots, n \in 0..MaxLen : Resize(i, n)
    \/ \E i \in Slots, k \in 1..MaxLen, b \in Byte : Write(i, k, b)
    \/ \E i \in Slots : IntoRaw(i)
    \/ \E i \in Slots, p \in AllocIds : FromRaw(i, p)
    \/ \E i \in Slots, flags \in FlagSets : Send(i, "Req", flags)
    \/ \E i \in Slots : Drop(i)

SpecAlloc == Init /\ [][NextAlloc]_vars

\* One caller thread drives the five pattern calls against peers the
\* environment plays.
Next ==
    \/ \E o \in {"request", "survey"}, c \in ByteSeqs : Call("t1", o, c)
    \/ \E o \in {"reply", "reply_loop", "respond"} : CallServe("t1", o)
    \/ Consume("t1")
    \/ Req_request_send("t1")
    \/ Req_request_recv("t1")
    \/ Surveyor_survey_send("t1")
    \/ Surveyor_survey_recv("t1")
    \/ Rep_reply_recv("t1")
    \/ Rep_reply_handler("t1")
    \/ Rep_reply_send("t1")
    \/ Respondent_respond_recv("t1")
    \/ Respondent_respond_handler("t1")
    \/ Respondent_respond_send("t1")

Spec == Init /\ [][Next]_vars

\* A Req socket connected to a Rep socket over a reliable in-order transport:
\* one thread requests once, another serves with reply or reply_loop.
InitReqRep ==
    /\ heap = [a \in AllocIds |-> Unalloc]
    /\ slots = [i \in Slots |-> NoBuf]
    /\ raws = {}
    /\ inq = [s \in Sockets |-> << >>]
    /\ link = [s \in Sockets |->
                 IF s = "Req" THEN "Rep" ELSE IF s = "Rep" THEN "Req" ELSE "env"]
    /\ pc = [t \in Threads |-> "idle"]
    /\ op = [t \in Threads |-> "none"]
    /\ cur = [t \in Threads |-> NoBuf]
    /\ responses = [t \in Threads |-> << >>]
    /\ ret = [t \in Threads |-> NoRet]
    /\ log = [t \in Threads |-> << >>]
    /\ SockInit

NextReqRep ==
    \/ \E c \in ByteSeqs : Call("t1", "request", c)
    \/ \E o \in {"reply", "reply_loop"} : CallServe("t2", o)
    \/ Req_request_send("t1")
    \/ Req_request_recv("t1")
    \/ Rep_reply_recv("t2")
    \/ Rep_reply_handler("t2")
    \/ Rep_reply_send("t2")

SpecReqRep == InitReqRep /\ [][NextReqRep]_vars

\* The addresses a program may pass: with and without an interior NUL byte.
Addrs == {<<97>>, <<97, 0, 98>>}

\* A program that uses the eight send and receive methods of one socket,
\* with one buffer at a time.
NextFlags ==
    \/ \E n \in 0..MaxLen : Zeroed(1, n)
    \/ Drop(1)
    \/ \E v \in {"send", "send_nb"} : SPSendMsg(1, v)
    \/ \E v \in {"recv", "recv_nb"} : SPRecvMsg(1, v)
    \/ \E v \in {"send_buf", "send_buf_nb"} : SPSendBuf(1, v)
    \/ \E v \in {"recv_buf", "recv_buf_nb"} : SPRecvBuf(1, v)

SpecFlags == Init /\ [][NextFlags]_vars

\* The endpoint was created on the opening of its descriptor that is still
\* open: its socket has not been closed since.
LiveEndpoint(h) ==
    /\ h.socket \in Fds
    /\ fds[h.socket].open
    /\ fds[h.socket].gen = h.gen

\* A program that creates, binds, connects, releases and drops sockets, and
\* shuts an endpoint down only while the socket it was created on is open.
NextSock ==
    \/ \E i \in SockSlots : SocketNew(i, "SP", "Req")
    \/ \E i \in SockSlots : SocketDrop(i)
    \/ \E i \in SockSlots : SocketIntoRawFd(i)
    \/ \E i \in SockSlots, fn \in {"bind", "connect"}, a \in Addrs : SocketBind(i, fn, a)
    \/ \E h \in {x \in handles : LiveEndpoint(x)} : EndpointShutdown(h)

SpecSock == Init /\ [][NextSock]_vars

\* The same program without that discipline: an Endpoint is a plain value
\* without a borrow of its Socket and can be shut down after the socket was
\* dropped.
NextStale ==
    \/ \E i \in SockSlots : SocketNew(i, "SP", "Req")
    \/ \E i \in SockSlots : SocketDrop(i)
    \/ \E i \in SockSlots : SocketIntoRawFd(i)
    \/ \E i \in SockSlots, fn \in {"bind", "connect"}, a \in Addrs : SocketBind(i, fn, a)
    \/ \E h \in handles : EndpointShutdown(h)
SpecStale == Init /\ [][NextStale]_vars

\* The lengths of the socket names a program sets.
NameLens == {3, BUF_SIZE + 1}
NextOpt ==
    \/ \E o \in OptNames, type \in {"i32", "bool", "Vec"} : SocketGetOption(o, type)
    \/ \E v \in I32Samples : SocketSetOption("RCVTIMEO", "i32", v)
    \/ \E b \in BOOLEAN : SocketSetOption("IPV4ONLY", "bool", b)
    \/ \E n \in NameLens : SocketSetOption("SOCKET_NAME", "slice", Pattern(n))
    \/ SockOptionGetter("rcv_timeout", "RCVTIMEO", "i32")
    \/ SockOptionGetter("ipv4_only", "IPV4ONLY", "bool")
    \/ SPSocketDomain
    \/ \E o \in {"SUB_SUBSCRIBE", "SUB_UNSUBSCRIBE"}, t \in Topics : SubSubscribe(o, t)
SpecOpt == Init /\ [][NextOpt]_vars

NextGetOpt ==
    \/ \E T \in ScalarTypes : GetOptionScalar(T)
    \/ GetOptionVec
SpecGetOpt == Init /\ [][NextGetOpt]_vars

NextOpen ==
    \/ \E i \in SockSlots, d \in Domains, p \in Protocols : SocketNew(i, d, p)
    \/ \E i \in SockSlots, open \in NngOpens : ProtocolNew(i, open)
    \/ \E i \in SockSlots : SocketDrop(i)
SpecOpen == Init /\ [][NextOpen]_vars

NextMsg ==
    \/ \E d \in MsgData : MessageAppend(d)
    \/ \E d \in MsgData : MessageHeaderAppend(d)
    \/ \E len \in 0..(MaxMsgLen + 1) : MessageTruncate(len)
    \/ \E len \in 0..(MaxMsgLen + 1) : MessageHeaderTruncate(len)
    \/ \E b \in Bufs : MessageRead(b)
    \/ \E v \in {<< >>, <<1>>} : MessageReadToEnd(v)
SpecMsg == Init /\ [][NextMsg]_vars

NextCaps ==
    \/ \E T \in Protocols, v \in SPVariants : ProtoMethod(T, v)
    \/ \E T \in Protocols, v \in {"send", "recv", "send_buf", "recv_buf"}, f \in FlagSets :
           ProtoSocketMethod(T, v, f)
    \/ \E T \in Protocols, U \in Protocols : ProtoDevice(T, U)
    \/ \E T \in Protocols : ProtoLoopbackDevice(T)
SpecCaps == Init /\ [][NextCaps]_vars

NextAddr == \E sa \in NngSockaddrs : SocketAddrFrom(sa)
SpecAddr == Init /\ [][NextAddr]_vars

\* Two callers, each a thread of the program, share the Req socket (Req is
\* Sync: request takes &self); a third thread serves the Rep socket.
Callers == {"t1", "t2"}
NextShare ==
    \/ \E t \in Callers, c \in BytesOfLen(MaxLen) : Call(t, "request", c)
    \/ \E o \in {"reply", "reply_loop"} : CallServe("t3", o)
    \/ \E t \in Callers : Req_request_send(t)
    \/ \E t \in Callers : Req_request_recv(t)
    \/ Rep_reply_recv("t3")
    \/ Rep_reply_handler("t3")
    \/ Rep_reply_send("t3")
SpecShare == InitReqRep /\ [][NextShare]_vars

\* One caller running surveys, its thread scheduled fairly. The peers are
\* the environment and answer a bounded number of times: when the chunks
\* are used up the transport fails the receive (the survey deadline).
NextSurvey ==
    \/ \E c \in ByteSeqs : Call("t1", "survey", c)
    \/ Surveyor_survey_send("t1")
    \/ Surveyor_survey_recv("t1")
    \/ Consume("t1")
SpecSurvey ==
    /\ Init
    /\ [][NextSurvey]_vars
    /\ WF_vars(Surveyor_survey_send("t1"))
    /\ WF_vars(Surveyor_survey_recv("t1"))

\* ----------------------------------------------------------- properties
Last(l) == l[Len(l)]
Returned(t, o) == op[t] = o /\ pc[t] = "returned"
\* The bytes of each buffer of a sequence, as its owner reads them.
Contents(bufs) == [i \in 1..Len(bufs) |-> Deref(heap, bufs[i])]
RecvOk(e) == e.ev = "recv" /\ e.ok
RecvFailed(e) == e.ev = "recv" /\ ~e.ok
\* The messages the transport handed over in the log, in order.
RecvData(l) == LET got == SelectSeq(l, RecvOk) IN [i \in 1..Len(got) |-> got[i].data]
\* The place of the first failed receive of a log, 0 when there is none.
FirstFail(l) ==
    IF \E i \in 1..Len(l) : RecvFailed(l[i])
    THEN CHOOSE i \in 1..Len(l) :
            RecvFailed(l[i]) /\ \A j \in 1..(i - 1) : ~RecvFailed(l[j])
    ELSE 0
SendSucceeded(l) == Len(l) >= 2 /\ l[2].ev = "send" /\ l[2].ok

\* C1: a survey whose send succeeded and whose first failed receive is a
\* TimedOut has returned, at that receive, Ok with exactly the messages of the
\* successful receives before it, in receive order, none dropped or merged.
C1_SurveyCollectsInOrder ==
    \A t \in Threads :
        LET l == log[t]
            k == FirstFail(l)
        IN  (op[t] = "survey" /\ SendSucceeded(l) /\ k # 0 /\ l[k].errno = ETIMEDOUT)
            => /\ pc[t] = "returned"
               /\ k = Len(l)
               /\ ret[t].kind = "ok"
               /\ Len(ret[t].bufs) = k - 3
               /\ Contents(ret[t].bufs) = RecvData(l)

\* Two different responses were collected, and returned in receive order.
C1_Witness ==
    /\ Returned("t1", "survey")
    /\ ret["t1"].kind = "ok"
    /\ Len(ret["t1"].bufs) = 2
    /\ Contents(ret["t1"].bufs) = << <<1>>, <<0>> >>

\* C2: a survey whose first failed receive is not a TimedOut has returned that
\* error, and hands no response to the caller.
C2_SurveyOtherErrorAborts ==
    \A t \in Threads :
        LET l == log[t]
            k == FirstFail(l)
        IN  (op[t] = "survey" /\ k # 0 /\ l[k].errno # ETIMEDOUT)
            => /\ pc[t] = "returned"
               /\ k = Len(l)
               /\ ret[t] = [kind |-> "err", err |-> Error(l[k].errno), bufs |-> << >>]
               /\ responses[t] = << >>

\* A survey failed after two responses had been received.
C2_Witness ==
    /\ Returned("t1", "survey")
    /\ ret["t1"].kind = "err"
    /\ Len(RecvData(log["t1"])) = 2

\* C3: a survey whose send succeeded and whose very first receive timed out
\* returns Ok with an empty sequence.
C3_SurveyNoRespondersIsEmptyOk ==
    \A t \in Threads :
        LET l == log[t]
        IN  (op[t] = "survey" /\ SendSucceeded(l) /\ Len(l) >= 3
                /\ RecvFailed(l[3]) /\ l[3].errno = ETIMEDOUT)
            => /\ pc[t] = "returned"
               /\ ret[t] = [kind |-> "ok", err |-> NoErr, bufs |-> << >>]

C3_Witness ==
    /\ Returned("t1", "survey")
    /\ Len(log["t1"]) = 3
    /\ RecvFailed(log["t1"][3])
    /\ log["t1"][3].errno = ETIMEDOUT
    /\ ret["t1"].kind = "ok"

\* C4: a native send or receive that timed out, other than a receive of
\* survey, ends the call with a failure that carries TimedOut.
C4_TimedOutOnlyEndsSurveyReceive ==
    \A t \in Threads :
        (/\ log[t] # << >>
         /\ Last(log[t]).ev \in {"send", "recv"}
         /\ ~Last(log[t]).ok
         /\ Last(log[t]).errno = ETIMEDOUT
         /\ ~(op[t] = "survey" /\ Last(log[t]).ev = "recv"))
        => /\ pc[t] = "returned"
           /\ ret[t].kind = "err"
           /\ ret[t].bufs = << >>
           /\ ret[t].err = IF op[t] \in {"request", "survey"}
                           THEN TIMED_OUT ELSE E_from(TIMED_OUT)

\* reply_loop served one request and then its receive timed out.
C4_Witness ==
    /\ Returned("t1", "reply_loop")
    /\ Len(log["t1"]) = 5
    /\ RecvFailed(Last(log["t1"]))
    /\ ret["t1"].err = E_from(TIMED_OUT)

\* C5: request sends the body once, then receives once, and returns what the
\* receive gave; when the send fails it returns that error without receiving.
C5_RequestSendThenRecv ==
    \A t \in Threads :
        LET l == log[t]
        IN  op[t] = "request" =>
            /\ l[1].ev = "call"
            /\ pc[t] = "send" => Len(l) = 1
            /\ pc[t] \in {"recv", "returned"} =>
                /\ Len(l) >= 2
                /\ l[2].ev = "send"
                /\ l[2].data = l[1].arg
            /\ pc[t] = "recv" => Len(l) = 2 /\ l[2].ok
            /\ pc[t] = "returned" =>
                IF l[2].ok
                THEN /\ Len(l) = 3
                     /\ l[3].ev = "recv"
                     /\ IF l[3].ok
                        THEN /\ ret[t].kind = "ok"
                             /\ Contents(ret[t].bufs) = <<l[3].data>>
                        ELSE ret[t] = [kind |-> "err", err |-> Error(l[3].errno),
                                       bufs |-> << >>]
                ELSE /\ Len(l) = 2
                     /\ ret[t] = [kind |-> "err", err |-> Error(l[2].errno),
                                  bufs |-> << >>]

\* A request whose send failed returned without a receive.
C5_Witness ==
    /\ Returned("t1", "request")
    /\ Len(log["t1"]) = 2
    /\ ~log["t1"][2].ok
    /\ ret["t1"].kind = "err"

\* C6: over a Req socket paired with a Rep socket, a request whose receive
\* succeeded returns exactly the bytes the handler produced for the request's
\* body, same length and content, zero-length bodies and replies included.
C6_ReplyBytesReachRequester ==
    LET l == log["t1"]
    IN  (op["t1"] = "request" /\ Len(l) = 3 /\ RecvOk(l[3]))
        => /\ pc["t1"] = "returned"
           /\ ret["t1"].kind = "ok"
           /\ Len(ret["t1"].bufs) = 1
           /\ \E i \in 1..Len(log["t2"]) :
                /\ log["t2"][i].ev = "handler"
                /\ log["t2"][i].ok
                /\ log["t2"][i].arg = l[1].arg
                /\ Contents(ret["t1"].bufs) = <<log["t2"][i].data>>
                /\ ret["t1"].bufs[1].size = Len(log["t2"][i].data)

\* A one-byte body was answered with a zero-length reply.
C6_Witness ==
    /\ Returned("t1", "request")
    /\ ret["t1"].kind = "ok"
    /\ log["t1"][1].arg = <<1>>
    /\ Contents(ret["t1"].bufs) = << << >> >>
    /\ op["t2"] = "reply"
    /\ pc["t2"] = "returned"

\* One pass of reply or respond that has not ended yet: the events so far
\* are a prefix of receive, handler, send.
IterRunning(l, t) ==
    /\ pc[t] = "recv" => l = << >>
    /\ pc[t] \in {"handler", "send"} => Len(l) >= 1 /\ RecvOk(l[1])
    /\ pc[t] = "handler" => Len(l) = 1
    /\ pc[t] = "send" =>
        /\ Len(l) = 2
        /\ l[2].ev = "handler" /\ l[2].ok /\ l[2].arg = l[1].data
\* One pass that succeeded: receive, one handler call on what was received,
\* one send of what the handler produced.
IterOk(l) ==
    /\ Len(l) = 3
    /\ RecvOk(l[1])
    /\ l[2].ev = "handler" /\ l[2].ok /\ l[2].arg = l[1].data
    /\ l[3].ev = "send" /\ l[3].ok /\ l[3].data = l[2].data
\* One pass that failed with e: at the receive (no handler call, no send), at
\* the handler (no send), or at the send.
IterFailed(l, e) ==
    \/ /\ Len(l) = 1
       /\ RecvFailed(l[1])
       /\ e = E_from(Error(l[1].errno))
    \/ /\ Len(l) = 2
       /\ RecvOk(l[1])
       /\ l[2].ev = "handler" /\ ~l[2].ok /\ l[2].arg = l[1].data
       /\ e = HandlerErr
    \/ /\ Len(l) = 3
       /\ RecvOk(l[1])
       /\ l[2].ev = "handler" /\ l[2].ok /\ l[2].arg = l[1].data
       /\ l[3].ev = "send" /\ ~l[3].ok /\ l[3].data = l[2].data
       /\ e = E_from(Error(l[3].errno))

\* C7: reply and respond receive, call the handler once on the received body,
\* then send the handler's result once; a failed receive ends the call with no
\* handler call and no send, a failed handler ends it with the handler's error
\* and no send.
C7_ReplyRecvHandlerSend ==
    \A t \in Threads :
        op[t] \in {"reply", "respond"} =>
            LET l == Tail(log[t])
            IN  IF pc[t] = "returned"
                THEN \/ IterOk(l) /\ ret[t] = [kind |-> "ok", err |-> NoErr, bufs |-> << >>]
                     \/ /\ ret[t].kind = "err"
                        /\ ret[t].bufs = << >>
                        /\ IterFailed(l, ret[t].err)
                ELSE IterRunning(l, t)

\* A reply whose handler failed returned the handler's error after the
\* receive alone.
C7_Witness ==
    /\ Returned("t1", "reply")
    /\ Len(log["t1"]) = 3
    /\ ret["t1"].err = HandlerErr

\* The events left after the leading successful passes are taken off.
RECURSIVE StripOk(_)
StripOk(l) ==
    IF Len(l) >= 3 /\ IterOk(SubSeq(l, 1, 3))
    THEN StripOk(SubSeq(l, 4, Len(l)))
    ELSE l

\* C8: reply_loop returns only at a failed pass, with the error of that pass,
\* the first to fail; every pass before it completed one receive, one handler
\* call and one send, and after a successful pass the loop is serving again.
C8_ReplyLoopEndsAtFirstFailure ==
    \A t \in Threads :
        op[t] = "reply_loop" =>
            LET l == StripOk(Tail(log[t]))
            IN  IF pc[t] = "returned"
                THEN /\ ret[t].kind = "err"
                     /\ IterFailed(l, ret[t].err)
                ELSE /\ pc[t] \in {"recv", "handler", "send"}
                     /\ IterRunning(l, t)

\* reply_loop served two requests and returned at the third pass.
C8_Witness ==
    /\ Returned("t1", "reply_loop")
    /\ Len(log["t1"]) >= 8
    /\ IterOk(SubSeq(log["t1"], 2, 4))
    /\ IterOk(SubSeq(log["t1"], 5, 7))

\* The chunks some MessageBuffer still owns, the chunks queued inside the
\* transport, and so the chunks somebody will still free.
RECURSIVE PtrsOf(_)
PtrsOf(bufs) == IF bufs = << >> THEN {} ELSE {Head(bufs).ptr} \cup PtrsOf(Tail(bufs))
WrapperPtrs ==
    {slots[i].ptr : i \in {j \in Slots : slots[j] # NoBuf}}
    \cup {cur[t].ptr : t \in {u \in Threads : cur[u] # NoBuf}}
    \cup UNION {PtrsOf(responses[t]) \cup PtrsOf(ret[t].bufs) : t \in Threads}
TransportPtrs == UNION {{inq[s][k] : k \in 1..Len(inq[s])} : s \in Sockets}
Owned == WrapperPtrs \cup raws \cup TransportPtrs

\* C9: over every sequence of new, zeroed, from_raw, resize, into_raw,
\* Socket::send and drop, no allocation is freed twice and no freed chunk is
\* touched; a buffer consumed by into_raw is neither freed nor still wrapped,
\* and every buffer still wrapped is a live chunk that no other wrapper, raw
\* pointer or the transport holds.
C9_NoDoubleFreeNoUseAfterTransfer ==
    /\ \A a \in AllocIds : heap[a].frees <= 1 /\ ~heap[a].bad
    /\ \A a \in raws : heap[a].st = "live" /\ a \notin WrapperPtrs
    /\ \A i \in Slots :
        slots[i] # NoBuf =>
            /\ heap[slots[i].ptr].st = "live"
            /\ slots[i].ptr \notin TransportPtrs
            /\ \A j \in Slots \ {i} : slots[j] # NoBuf => slots[j].ptr # slots[i].ptr

\* One buffer was consumed by into_raw, another was freed once (dropped, or
\* sent and released by the transport), and no binding is left.
C9_Witness ==
    /\ raws # {}
    /\ \E a \in AllocIds : heap[a].st = "freed" /\ heap[a].frees = 1
    /\ \A i \in Slots : slots[i] = NoBuf

\* C10: no chunk is leaked: every chunk not yet freed is still owned by a
\* MessageBuffer, by the holder of its raw pointer or by the transport, so
\* every buffer passed to Socket::send is freed once whether the native send
\* succeeded or failed.
C10_SendNeverLeaks ==
    \A a \in AllocIds : heap[a].st = "live" => a \in Owned

NativeEp(h) == [fd |-> h.socket, id |-> h.id, gen |-> h.gen]
HasNul(addr) == \E k \in 1..Len(addr) : addr[k] = 0
CloseCalls(calls) == SelectSeq(calls, LAMBDA c : c.fn = "nn_close")

C12_EndpointShutdownIsLocal ==
    [][/\ (last'.op \in {"bind", "connect"} /\ last'.res.ok) =>
            /\ last'.res.val \notin handles
            /\ \A h \in handles :
                 LiveEndpoint(h) => ~(h.socket = last'.res.val.socket /\ h.id = last'.res.val.id)
            /\ handles' = handles \cup {last'.res.val}
            /\ eps' = eps \cup {NativeEp(last'.res.val)}
            /\ NativeEp(last'.res.val) \notin eps
       /\ \A h \in handles \ handles' :
            LiveEndpoint(h) =>
                /\ handles' = handles \ {h}
                /\ fds' = fds
                /\ socks' = socks
                /\ eps' = IF last'.res.ok THEN eps \ {NativeEp(h)} ELSE eps
      ]_vars

\* An endpoint was shut down while its socket stays open with another
\* endpoint still active and its Endpoint still held.
C12_Witness ==
    /\ last.op = "shutdown"
    /\ last.res.ok
    /\ fds[last.arg.socket].open
    /\ \E h \in handles :
        /\ h.socket = last.arg.socket
        /\ h.id # last.arg.id
        /\ NativeEp(h) \in eps

\* C20: bind and connect with an address that contains a NUL byte return
\* Err(Invalid), make no native call, create no Endpoint and leave the
\* endpoints of the socket as they were.
C20_NulAddressRejectedBeforeNativeCall ==
    [][(last'.op \in {"bind", "connect"} /\ HasNul(last'.arg)) =>
            /\ last'.res = Err(INVALID)
            /\ sys' = << >>
            /\ handles' = handles
            /\ eps' = eps
            /\ fds' = fds
      ]_vars

\* A connect with a NUL in the address was refused on a socket that has an
\* endpoint.
C20_Witness ==
    /\ last.op = "connect"
    /\ HasNul(last.arg)
    /\ last.res = Err(INVALID)
    /\ \E i \in SockSlots, e \in eps : socks[i] = Socket(e.fd)

\* C13: recv_nb, recv_buf_nb, send_nb and send_buf_nb make one native call
\* with DONTWAIT, which never waits and whose EAGAIN is returned as
\* WouldBlock; recv, recv_buf, send and send_buf make one native call without
\* DONTWAIT.
C13_NonBlockingPassesDontWait ==
    last.op \in SPVariants =>
        /\ Len(sys) = 1
        /\ sys[1].fn = (IF last.op \in {"recv", "recv_nb", "recv_buf", "recv_buf_nb"}
                        THEN "nn_recv" ELSE "nn_send")
        /\ (DONTWAIT \in sys[1].arg.flags) <=> (last.op \in NonBlocking)
        /\ last.op \in NonBlocking =>
            /\ ~sys[1].arg.waited
            /\ sys[1].errno # ETIMEDOUT
            /\ (sys[1].ret = -1 /\ sys[1].errno = EAGAIN) => last.res = Err(WOULD_BLOCK)

\* A recv_buf_nb that could not complete returned WouldBlock.
C13_Witness ==
    /\ last.op = "recv_buf_nb"
    /\ last.res = Err(WOULD_BLOCK)
    /\ DONTWAIT \in sys[1].arg.flags

\* C14: GetOption::get_option for i32, usize, u64, Milliseconds and
\* nng_sockaddr calls the getter once with size_of::<T>() and returns
\* Ok(value) only when the getter succeeded and reported exactly that size;
\* a getter error comes back unchanged and any other reported size is
\* Err(INVALID).
C14_ScalarGetOptionChecksSize ==
    (last.op = "GetOption" /\ last.arg.type \in ScalarTypes) =>
        /\ Len(sys) = 1
        /\ sys[1].arg.cap = SizeOf(last.arg.type)
        /\ last.res.ok <=> (sys[1].ret = 0 /\ sys[1].arg.size = SizeOf(last.arg.type))
        /\ last.res.ok => last.res.val = sys[1].arg.val
        /\ sys[1].ret # 0 => last.res = Err(Error(sys[1].errno))
        /\ (sys[1].ret = 0 /\ sys[1].arg.size # SizeOf(last.arg.type)) =>
               last.res = Err(INVALID)
C14_Witness ==
    /\ last.op = "GetOption"
    /\ last.arg.type = "usize"
    /\ sys[1].ret = 0
    /\ sys[1].arg.size = 4
    /\ last.res = Err(INVALID)

\* C15: GetOption::get_option for Vec<u8> calls the getter with a 128-byte
\* buffer, calls it a second and last time, with the reported size as the
\* buffer size, exactly when the first call succeeded and reported more
\* than 128 bytes, and on success returns a vector whose length is the size
\* the last call reported.
C15_VecGetOptionRetriesOnce ==
    (last.op = "GetOption" /\ last.arg.type = "Vec") =>
        /\ Len(sys) \in {1, 2}
        /\ sys[1].arg.cap = BUF_SIZE
        /\ Len(sys) = 2 <=> (sys[1].ret = 0 /\ sys[1].arg.size > BUF_SIZE)
        /\ Len(sys) = 2 => sys[2].arg.cap = sys[1].arg.size
        /\ last.res.ok => last.res.val.len = sys[Len(sys)].arg.size
C15_Witness ==
    /\ last.op = "GetOption"
    /\ last.arg.type = "Vec"
    /\ Len(sys) = 2
    /\ sys[1].arg.size = 200
    /\ sys[2].arg.size = 136
    /\ last.res = Ok([len |-> 136])

\* C16: Socket::get_option returns Ok for i32 and bool only if the transport
\* reported exactly 4 bytes, and for Vec<u8> only with the complete value,
\* as long as the transport reported it to be.
C16_GetOptionNeverTruncates ==
    (last.op = "get_option" /\ last.res.ok) =>
        /\ last.arg.type \in {"i32", "bool"} => sys[1].arg.size = 4
        /\ last.arg.type = "Vec" =>
               /\ Len(last.res.val) = sys[1].arg.size
               /\ last.res.val = opts[last.arg.option].bytes

\* C17: a get_option of an i32 or bool option, through Socket::get_option or
\* a sock_option! getter, that succeeds after a successful set_option of
\* the same option and type returns the value that was set last.
C17_SetThenGetRoundTrip ==
    (/\ last.op \in {"get_option", "rcv_timeout", "ipv4_only"}
     /\ last.res.ok
     /\ last.arg.type \in {"i32", "bool"}
     /\ opts[last.arg.option].set.type = last.arg.type) =>
        last.res.val = opts[last.arg.option].set.v
C17_Witness ==
    /\ last.op = "get_option"
    /\ last.arg = [option |-> "RCVTIMEO", type |-> "i32"]
    /\ opts["RCVTIMEO"].set = [type |-> "i32", v |-> -2147483647 - 1]
    /\ last.res = Ok(-2147483647 - 1)

\* C18: no option getter generated by sock_option!, nor SPSocket::domain,
\* Sub::subscribe, Sub::unsubscribe or the Vec<u8> option getter, panics:
\* an error or an unexpected value from the transport comes back as a
\* failure result.
C18_OptionOperationsNeverPanic == ~IsPanic(last.res)

\* The native open call of a constructor reported success: a descriptor
\* from nn_socket, 0 from an nng open function.
NativeOpened(c) == IF c.fn = "nn_socket" THEN c.ret # -1 ELSE c.ret = 0

\* C19: a socket constructor (Socket::new and the def_protocols!
\* constructors over nn_socket, Protocol::new over the nng open functions)
\* returns a wrapper exactly when the native open call reported success,
\* and the program then holds a wrapper around an open socket; when the
\* native call reported an error the program holds no wrapper.
C19_WrapperExactlyWhenNativeOpenSucceeds ==
    (last.op \in {"Socket_new", "Protocol_new"}) =>
        /\ last.res.ok <=> NativeOpened(sys[1])
        /\ socks[last.slot].held <=> NativeOpened(sys[1])
        /\ socks[last.slot].held => fds[socks[last.slot].fd].open

\* C24: Message::truncate(len) and MessageHeader::truncate(len) leave the
\* message as it was when len is at least the current length of the body
\* (of the header); otherwise the body (the header) becomes the first len
\* bytes of the old one, and the other part is untouched.
C24_TruncateKeepsPrefix ==
    /\ last.op = "truncate" =>
        /\ msg.header = last.arg.before.header
        /\ msg.body = IF last.arg.len >= Len(last.arg.before.body)
                      THEN last.arg.before.body
                      ELSE SubSeq(last.arg.before.body, 1, last.arg.len)
    /\ last.op = "header_truncate" =>
        /\ msg.body = last.arg.before.body
        /\ msg.header = IF last.arg.len >= Len(last.arg.before.header)
                        THEN last.arg.before.header
                        ELSE SubSeq(last.arg.before.header, 1, last.arg.len)
C24_Witness ==
    /\ last.op = "truncate"
    /\ last.arg.len = 1
    /\ Len(last.arg.before.body) = 2
    /\ msg.body = <<last.arg.before.body[1]>>

\* C25: a truncate to the length the message had before an append that
\* succeeded, made right after that append, leaves the message with the
\* bytes and the length it had before the append.
C25_AppendThenTruncateRoundTrip ==
    (/\ last.op = "truncate"
     /\ last.arg.prev.op = "append"
     /\ last.arg.prev.ok
     /\ last.arg.len = Len(last.arg.prev.before.body)) =>
        msg = last.arg.prev.before
C25_Witness ==
    /\ last.op = "truncate"
    /\ last.arg.prev.op = "append"
    /\ last.arg.prev.ok
    /\ Len(last.arg.prev.before.body) = 1
    /\ Len(last.arg.before.body) = 2
    /\ last.arg.len = 1
    /\ msg.body = last.arg.prev.before.body

\* C29: io::Read::read on a Message with a buffer of any length returns
\* Ok(n) with n the smaller of the two lengths, having copied the first n
\* bytes of the message and removed them from it; it does not panic.
C29_ReadCopiesMinAndTrims ==
    last.op = "read" =>
        /\ last.res.ok
        /\ last.res.val.n = Min(last.arg.len, Len(last.arg.before.body))
        /\ last.res.val.buf = SubSeq(last.arg.before.body, 1, last.res.val.n)
        /\ msg.body = SubSeq(last.arg.before.body, last.res.val.n + 1,
                             Len(last.arg.before.body))

\* C30: io::Read::read_to_end on a Message appends the whole message to the
\* vector, leaves the message empty and returns Ok(k), k being the length
\* the message had.
C30_ReadToEndReturnsLength ==
    last.op = "read_to_end" =>
        /\ last.res.ok
        /\ last.res.val.buf = last.arg.data \o last.arg.before.body
        /\ msg.body = << >>
        /\ last.res.val.n = Len(last.arg.before.body)

\* C22: no send reaches the transport through a Sub or Pull wrapper and no
\* receive through a Pub or Push wrapper, and loopback_device runs only on
\* Bus and Pair.
C22_CapabilitiesAreEnforced ==
    /\ \A k \in 1..Len(sys) :
        /\ sys[k].fn = "nn_send" => last.arg.type \notin {"Sub", "Pull"}
        /\ sys[k].fn = "nn_recv" => last.arg.type \notin {"Pub", "Push"}
    /\ last.op = "loopback_device" => last.arg.type \in {"Bus", "Pair"}

\* C23: the companion of the companion of every protocol type is the type
\* itself, SPSocket::device runs only with the companion type as the second
\* socket, and the types with loopback_device are those that are their own
\* companion.
C23_CompanionIsSymmetric ==
    /\ \A T \in Protocols : Companion(T) \in Protocols /\ Companion(Companion(T)) = T
    /\ {T \in Protocols : "Loopback" \in Traits(T)} = {T \in Protocols : Companion(T) = T}
    /\ last.op = "device" =>
        /\ last.arg.companion = Companion(last.arg.type)
        /\ Companion(last.arg.companion) = last.arg.type
    /\ last.op = "loopback_device" => Companion(last.arg.type) = last.arg.type
C23_Witness ==
    /\ last.op = "device"
    /\ last.arg.type = "Sub"
    /\ last.arg.companion = "Pub"
    /\ sys[1].fn = "nn_device"

\* C21: decoding an nng_sockaddr never fails and the variant it gives
\* depends on the family discriminant alone: INPROC gives InProc, IPC gives
\* Ipc, INET an IPv4 Inet, INET6 an IPv6 Inet, ZT gives ZeroTier, and every
\* other value, UNSPEC among them, gives Unspecified.
C21_SockaddrDecodeIsTotal ==
    last.op = "SocketAddr_from" =>
        /\ last.res.ok
        /\ last.res.val.kind =
            (IF last.arg.s_family = NNG_AF_INPROC THEN "InProc"
             ELSE IF last.arg.s_family = NNG_AF_IPC THEN "Ipc"
             ELSE IF last.arg.s_family = NNG_AF_INET THEN "InetV4"
             ELSE IF last.arg.s_family = NNG_AF_INET6 THEN "InetV6"
             ELSE IF last.arg.s_family = NNG_AF_ZT THEN "ZeroTier"
             ELSE "Unspecified")
        /\ \A sa \in NngSockaddrs :
               sa.s_family = last.arg.s_family =>
                   SocketAddr_from(sa).kind = last.res.val.kind
C21_Witness ==
    /\ last.op = "SocketAddr_from"
    /\ last.arg.s_family = 65535
    /\ last.arg.sa_path[1] # 0
    /\ last.res.val.kind = "Unspecified"

\* A caller is inside request, past its send and before its receive.
BetweenSendAndRecv(t) == op[t] = "request" /\ pc[t] = "recv"

\* C26: Req::request holds no lock between its send and its receive: while
\* one caller is between the two, the send of another caller of the same
\* socket that has reached it can execute, and so can its receive.
C26_NoLockBetweenSendAndRecv ==
    \A t \in Callers : \A u \in Callers \ {t} :
        BetweenSendAndRecv(t) =>
            /\ (op[u] = "request" /\ pc[u] = "send") => ENABLED Req_request_send(u)
            /\ BetweenSendAndRecv(u) => ENABLED Req_request_recv(u)
\* The second caller sent between the first caller's send and receive and
\* then received the reply the handler produced for the first caller's
\* request, while the first caller is still waiting for it.
C26_Witness ==
    /\ BetweenSendAndRecv("t1")
    /\ Returned("t2", "request")
    /\ ret["t2"].kind = "ok"
    /\ log["t1"][1].arg = <<0>>
    /\ log["t2"][1].arg = <<1>>
    /\ \E i \in 1..Len(log["t3"]) :
        /\ log["t3"][i].ev = "handler"
        /\ log["t3"][i].arg = log["t1"][1].arg
        /\ Contents(ret["t2"].bufs) = <<log["t3"][i].data>>
    /\ \A i \in 1..Len(log["t3"]) :
        log["t3"][i].ev = "handler" => log["t3"][i].arg # log["t2"][1].arg

\* C27: Endpoint::shutdown acts only on the socket that created the
\* Endpoint: the endpoints it removes are endpoints of that socket, also
\* when that socket was dropped and its descriptor number was given to a
\* socket created later.
C27_StaleEndpointTouchesNoOtherSocket ==
    [][\A h \in handles \ handles' :
           \A x \in eps \ eps' : x = NativeEp(h)]_vars

\* The place of the first failed native call, a send or a receive, of a log,
\* 0 when there is none.
FailedCall(e) == e.ev \in {"send", "recv"} /\ ~e.ok
FirstFailedCall(l) ==
    IF \E i \in 1..Len(l) : FailedCall(l[i])
    THEN CHOOSE i \in 1..Len(l) :
            FailedCall(l[i]) /\ \A j \in 1..(i - 1) : ~FailedCall(l[j])
    ELSE 0

\* C28: survey has returned exactly when its send or one of its receives
\* has failed, so while every receive succeeds it goes on collecting; and
\* with a transport that cannot answer forever a survey that was started
\* eventually returns.
C28_SurveyReturnsExactlyOnFailure ==
    /\ [](op["t1"] = "survey" =>
            /\ pc["t1"] = "returned" <=> FirstFailedCall(log["t1"]) # 0
            /\ pc["t1"] = "returned" => FirstFailedCall(log["t1"]) = Len(log["t1"])
            /\ pc["t1"] = "recv" => Len(responses["t1"]) = Len(log["t1"]) - 2)
    /\ (op["t1"] = "survey" /\ pc["t1"] \in {"send", "recv"}) ~> (pc["t1"] = "returned")
\* A survey collected two responses and returned at the third receive, which
\* timed out.
C28_Witness ==
    /\ op["t1"] = "survey"
    /\ pc["t1"] = "returned"
    /\ Len(log["t1"]) = 5
    /\ FirstFailedCall(log["t1"]) = 5
    /\ log["t1"][5].errno = ETIMEDOUT
    /\ Len(ret["t1"].bufs) = 2

====
